---- MODULE Spec2Model ----
\* Temporary Action Scheduler of Kiero (kiero_bot/moderation.py, cogs/moderation.py):
\* the persisted temporary_actions table, the TEMP_ACTION_TASKS registry, the
\* asyncio reversal tasks and the ban/mute/unban/unmute command handlers.
EXTENDS Integers, Sequences, FiniteSets, TLC

\* ---------------------------------------------------------------- bounds
MaxTime == 1800        \* the clock stops advancing here
TickSeconds == 600     \* granularity of the clock
MaxTasks == 2          \* asyncio.Task objects alive at the same time
MaxHandlers == 1       \* command handlers suspended on a platform call
MaxCommands == 2       \* commands accepted in one behaviour
MaxCrashes == 1        \* process stops in one behaviour
MaxTickets == 2        \* ticket numbers a guild's counter issues
MaxInteractions == 2   \* ticket interactions suspended at the same time

\* ------------------------------------------------------ program constants
ACTION_BAN == "ban"
ACTION_MUTE == "mute"
RETRY_DELAY_SECONDS == 600
MUTE_LIMIT_DAYS == 28
ACTION_TICKET_OPEN == "open"
ACTION_TICKET_CLOSED == "closed"
MAX_TICKET_SUBJECT_LENGTH == 200
MAX_TICKET_CLOSE_REASON_LENGTH == 300
DEFAULT_TICKET_PREFIX == <<"t", "i", "c", "k", "e", "t">>

Guilds == {1}
Users == {7}
Reasons == {"spam", "raid"}
\* duration inputs of the commands: "0:0:5:0"
Durations == {<<"0", ":", "0", ":", "5", ":", "0">>}
\* duration inputs a command does not take: "x:0:5:0", "0:5:0", "0:0:0:0",
\* "0:24:0:0", "1000000000:0:0:1", and for /mute "29:0:0:0"
RefusedDurations ==
    {<<"x", ":", "0", ":", "5", ":", "0">>,
     <<"0", ":", "5", ":", "0">>,
     <<"0", ":", "0", ":", "0", ":", "0">>,
     <<"0", ":", "2", "4", ":", "0", ":", "0">>,
     <<"1", "0", "0", "0", "0", "0", "0", "0", "0", "0", ":", "0", ":", "0", ":", "1">>}
OverlongMutes == {<<"2", "9", ":", "0", ":", "0", ":", "0">>}

Slots == 1..MaxTasks
Handlers == 1..MaxHandlers
None == "None"
NoKey == <<None, 0, 0>>
NoTask == [pc |-> "free"]
Idle == [op |-> "idle"]
EmptyDict == [k \in {} |-> 0]

\* ------------------------------------------------------------- common.py
\* A str is the sequence of its characters.
Digits == <<"0", "1", "2", "3", "4", "5", "6", "7", "8", "9">>
IsDigit(c) == \E i \in DOMAIN Digits : Digits[i] = c
DigitValue(c) == (CHOOSE i \in DOMAIN Digits : Digits[i] = c) - 1

\* str.strip(): leading and trailing whitespace removed
RECURSIVE strip(_)
strip(text) ==
    IF text = <<>> THEN text
    ELSE IF Head(text) = " " THEN strip(Tail(text))
    ELSE IF text[Len(text)] = " " THEN strip(SubSeq(text, 1, Len(text) - 1))
    ELSE text

\* str.split(sep): the fields between the separators, at least one field
RECURSIVE split(_, _)
split(raw, sep) ==
    IF \A i \in DOMAIN raw : raw[i] # sep THEN <<raw>>
    ELSE LET i == CHOOSE j \in DOMAIN raw :
                      raw[j] = sep /\ \A k \in 1..(j - 1) : raw[k] # sep
         IN <<SubSeq(raw, 1, i - 1)>> \o split(SubSeq(raw, i + 1, Len(raw)), sep)

\* the value of a run of decimal digits
RECURSIVE DecimalValue(_)
DecimalValue(digits) ==
    IF digits = <<>> THEN 0
    ELSE 10 * DecimalValue(SubSeq(digits, 1, Len(digits) - 1))
            + DigitValue(digits[Len(digits)])

\* int(part): surrounding whitespace and one sign are accepted, then at
\* least one digit and nothing but digits; anything else is a ValueError
\* (the inputs of the model have no underscore and no non-ASCII digit)
int(part) ==
    LET text == strip(part)
        signed == text # <<>> /\ Head(text) \in {"+", "-"}
        digits == IF signed THEN Tail(text) ELSE text
    IN IF digits = <<>> \/ \E i \in DOMAIN digits : ~IsDigit(digits[i])
       THEN [error |-> "invalid literal for int()", value |-> 0]
       ELSE [error |-> None,
             value |-> IF signed /\ Head(text) = "-"
                       THEN 0 - DecimalValue(digits) ELSE DecimalValue(digits)]

\* str(n) of a non-negative int: its decimal digits
RECURSIVE str(_)
str(n) ==
    IF n < 10 THEN <<Digits[n + 1]>>
    ELSE str(n \div 10) \o <<Digits[(n % 10) + 1]>>

\* parse_duration on the raw text: a timedelta (its total seconds) or the
\* exception it raises
ValueError(message) ==
    [error |-> message, exception |-> "ValueError", total_seconds |-> 0]
OverflowError(message) ==
    [error |-> message, exception |-> "OverflowError", total_seconds |-> 0]

\* timedelta.max.days: the constructor raises OverflowError above it
timedelta_max_days == 999999999

\* timedelta(days=, hours=, minutes=, seconds=) for non-negative arguments
\* with hours <= 23, minutes <= 59, seconds <= 59
timedelta(days, hours, minutes, seconds) ==
    IF days > timedelta_max_days
    THEN OverflowError("days must have magnitude <= 999999999")
    ELSE [error |-> None, exception |-> None,
          total_seconds |-> 86400 * days + 3600 * hours + 60 * minutes + seconds]

parse_duration(raw) ==
    LET parts == split(raw, ":")
        fields == [i \in DOMAIN parts |-> int(parts[i])]
    IN IF Len(parts) # 4 THEN ValueError("Duration format must be d:h:m:s")
       ELSE IF \E i \in 1..4 : fields[i].error # None
       THEN ValueError("Duration must contain only numbers")
       ELSE IF \E i \in 1..4 : fields[i].value < 0
       THEN ValueError("Duration values cannot be negative")
       ELSE IF fields[2].value > 23 \/ fields[3].value > 59 \/ fields[4].value > 59
       THEN ValueError("Hours must be <= 23, minutes/seconds <= 59")
       ELSE LET duration == timedelta(fields[1].value, fields[2].value,
                                      fields[3].value, fields[4].value)
            IN IF duration.error = None /\ duration.total_seconds <= 0
               THEN ValueError("Duration must be greater than zero")
               ELSE duration

\* format_duration: divmod by 86400, 3600 and 60; "{d}d {h}h {m}m {s}s"
format_duration(duration) ==
    LET total_seconds == duration.total_seconds
        days == total_seconds \div 86400
        hours == (total_seconds % 86400) \div 3600
        minutes == ((total_seconds % 86400) % 3600) \div 60
        seconds == ((total_seconds % 86400) % 3600) % 60
    IN str(days) \o <<"d", " ">> \o str(hours) \o <<"h", " ">>
         \o str(minutes) \o <<"m", " ">> \o str(seconds) \o <<"s">>

\* parse_duration(duration) for the duration arguments of the commands
ParsedDurations ==
    [raw \in Durations \cup RefusedDurations \cup OverlongMutes |-> parse_duration(raw)]

\* ---------------------------------------------------------- moderation.py
action_key(action_type, guild_id, user_id) == <<action_type, guild_id, user_id>>

Keys == {action_key(a, g, u) : a \in {ACTION_BAN, ACTION_MUTE}, g \in Guilds, u \in Users}

RowKey(row) == action_key(row.action_type, row.guild_id, row.user_id)

\* variant: a plain INSERT that keeps the row the key already has
save_temporary_action_insert_only(table, key, expires_at, reason, timestamp) ==
    table \cup {[action_type |-> key[1], guild_id |-> key[2], user_id |-> key[3],
                 expires_at |-> expires_at, reason |-> reason, created_at |-> timestamp]}

\* variant: the conflict target is (guild_id, user_id), so the row replaces
\* the user's row of the other kind
save_temporary_action_per_user(table, key, expires_at, reason, timestamp) ==
    {row \in table : row.guild_id # key[2] \/ row.user_id # key[3]}
        \cup {[action_type |-> key[1], guild_id |-> key[2], user_id |-> key[3],
               expires_at |-> expires_at, reason |-> reason, created_at |-> timestamp]}

\* INSERT ... ON CONFLICT(action_type, guild_id, user_id) DO UPDATE SET
\* expires_at, reason, created_at
save_temporary_action(table, key, expires_at, reason, timestamp) ==
    {row \in table : RowKey(row) # key}
        \cup {[action_type |-> key[1], guild_id |-> key[2], user_id |-> key[3],
               expires_at |-> expires_at, reason |-> reason, created_at |-> timestamp]}

\* variant: the WHERE clause leaves out action_type
delete_temporary_action_any_kind(table, key) ==
    {row \in table : row.guild_id # key[2] \/ row.user_id # key[3]}

\* DELETE FROM temporary_actions WHERE key
delete_temporary_action(table, key) == {row \in table : RowKey(row) # key}

\* variant: the SELECT reads created_at where it should read expires_at
load_temporary_actions_wrong_column(table) ==
    {<<row.action_type, row.guild_id, row.user_id, row.created_at, row.reason>> : row \in table}

\* SELECT action_type, guild_id, user_id, expires_at, reason
load_temporary_actions(table) ==
    {<<row.action_type, row.guild_id, row.user_id, row.expires_at, row.reason>> : row \in table}

\* ------------------------------------------------------------------ state
VARIABLES
    now,        \* current_timestamp(): seconds of the wall clock
    store,      \* rows of the temporary_actions table (survives restarts)
    tasks,      \* asyncio.Task objects created by schedule_temporary_action
    registry,   \* TEMP_ACTION_TASKS: key -> task
    handlers,   \* command handlers suspended on their platform call
    phase,      \* "down" before setup_hook/cog_load has run, "up" after
    commands,   \* number of commands accepted so far (bounded by MaxCommands)
    crashes,    \* number of process stops so far (bounded by MaxCrashes)
    last,       \* the step taken last (history, read by the properties)
    probe,      \* a function under test: its name, arguments and result
    sanctions,  \* the platform: for each key, whether the sanction (the ban,
                \* the timeout) is in force
    ticket_settings,  \* rows of the ticket_settings table
    ticket_counters,  \* rows of the ticket_counters table
    tickets,          \* rows of the tickets table
    channels,         \* the platform: ticket channels that exist, and how
                      \* many it has created
    interactions,     \* ticket interaction handlers suspended on an await
    effects,          \* per channel, the close side effects performed (history)
    races             \* users whose creation requests overlapped, and whether
                      \* the configuration was changed (history)

ticket_vars == <<ticket_settings, ticket_counters, tickets, channels,
                 interactions, effects, races>>

\* the state outside the scheduler
aside == <<probe, ticket_vars, sanctions>>

vars == <<now, store, tasks, registry, handlers, phase, commands, crashes, last,
          aside>>

\* the scheduler's part of the state, threaded through the synchronous calls
Sched == [store |-> store, tasks |-> tasks, registry |-> registry]

\* op: the step; key, slot: the key and task it is about; outcome: the
\* executor's answer or the task's result; replaced: the task the registry
\* held for the key before the step (0: none); arg: <<expires_at, reason>> of
\* a schedule step, <<platform>> of an executor step (what its calls tell
\* about the sanction); the outcome of a start step is where the task's first
\* step has brought it ("sleep" or "call")
NoEvent == [op |-> "none", key |-> NoKey, slot |-> 0, outcome |-> None,
            replaced |-> 0, arg |-> <<>>]

Event(op, key, slot, outcome, replaced, arg) ==
    [op |-> op, key |-> key, slot |-> slot, outcome |-> outcome,
     replaced |-> replaced, arg |-> arg]

\* the platform after it has performed a sanction call for the key: guild.ban
\* and user.timeout(until) put the sanction in force, guild.unban and
\* user.timeout(None) lift it
Sanctioned(key, in_force) ==
    [k \in DOMAIN sanctions |-> IF k = key THEN in_force ELSE sanctions[k]]

\* asyncio.create_task(process_temporary_action(...)): the coroutine has not
\* run yet; next_attempt is the local that its first line sets to expires_at;
\* attempts counts the executor invocations of the task and restored tells
\* that restore_temporary_actions created it (both history)
create_background_task(key, expires_at, reason) ==
    [key |-> key, reason |-> reason, next_attempt |-> expires_at, attempts |-> 0,
     restored |-> FALSE, pc |-> "start", must_cancel |-> FALSE, result |-> None]

TaskDone(task) == task.pc = "done"

FreeSlots(tks) == {s \in Slots : tks[s] = NoTask}
FreeSlot(tks) == CHOOSE s \in FreeSlots(tks) : \A o \in FreeSlots(tks) : s <= o

DictPop(dict, key) == [k \in DOMAIN dict \ {key} |-> dict[k]]
DictSet(dict, key, value) ==
    [k \in DOMAIN dict \cup {key} |-> IF k = key THEN value ELSE dict[k]]
DictGet(dict, key) == IF key \in DOMAIN dict THEN dict[key] ELSE 0

\* variant: the row is deleted whatever delete_from_db says
cancel_temporary_action_always_deletes(st, key, delete_from_db) ==
    LET slot == DictGet(st.registry, key)
    IN [store |-> delete_temporary_action(st.store, key),
        tasks |-> IF slot # 0 /\ st.tasks[slot].pc # "done"
                  THEN [st.tasks EXCEPT ![slot].must_cancel = TRUE]
                  ELSE st.tasks,
        registry |-> DictPop(st.registry, key)]

\* variant: the registry entry is popped but the task is not cancelled
cancel_temporary_action_pop_only(st, key, delete_from_db) ==
    [store |-> IF delete_from_db THEN delete_temporary_action(st.store, key)
               ELSE st.store,
     tasks |-> st.tasks,
     registry |-> DictPop(st.registry, key)]

\* task = TEMP_ACTION_TASKS.pop(key, None); cancel it unless done; delete row
cancel_temporary_action(st, key, delete_from_db) ==
    LET slot == DictGet(st.registry, key)
        cancelled ==
            IF slot # 0 /\ ~TaskDone(st.tasks[slot])
            THEN [st.tasks EXCEPT ![slot].must_cancel = TRUE]
            ELSE st.tasks
    IN [store |-> IF delete_from_db THEN delete_temporary_action(st.store, key)
                  ELSE st.store,
        tasks |-> cancelled,
        registry |-> DictPop(st.registry, key)]

\* cancel(delete_from_db=False), create the task, TEMP_ACTION_TASKS[key] = task
schedule_temporary_action(st, key, expires_at, reason) ==
    LET st1 == cancel_temporary_action(st, key, FALSE)
        slot == FreeSlot(st1.tasks)
    IN [store |-> st1.store,
        tasks |-> [st1.tasks EXCEPT ![slot] = create_background_task(key, expires_at, reason)],
        registry |-> DictSet(st1.registry, key, slot)]

\* rows = load_temporary_actions(); schedule_temporary_action for each row
RECURSIVE RestoreRows(_, _)
RestoreRows(st, rows) ==
    IF rows = {} THEN st
    ELSE LET row == CHOOSE r \in rows : TRUE
             key == action_key(row[1], row[2], row[3])
             st1 == schedule_temporary_action(st, key, row[4], row[5])
         IN RestoreRows([st1 EXCEPT !.tasks[st1.registry[key]].restored = TRUE],
                        rows \ {row})

\* variant: the startup does not restore the rows
restore_temporary_actions_nothing(st) == st

\* variant: the restore writes every row back, which stamps created_at anew
restore_temporary_actions_saves(st) ==
    LET st1 == RestoreRows(st, load_temporary_actions(st.store))
    IN [st1 EXCEPT !.store = {[row EXCEPT !.created_at = row.expires_at] : row \in st.store}]

restore_temporary_actions(st) == RestoreRows(st, load_temporary_actions(st.store))

\* ------------------------------------------------- the Reversal Executor
\* results of one gateway call: it returns, or raises one of discord's
\* exceptions, or raises an error that is no discord.HTTPException
ApiResults == {"ok", "NotFound", "Forbidden", "HTTPException", "OtherError"}
GuildResults == {"cached"} \cup ApiResults
MemberResults == {"cached"} \cup ApiResults

\* bot.get_guild, else fetch_guild; Forbidden/NotFound/HTTPException -> None
resolve_guild(guild_result) ==
    CASE guild_result \in {"cached", "ok"} -> "guild"
      [] guild_result \in {"Forbidden", "NotFound", "HTTPException"} -> None
      [] OTHER -> "raise"

\* variant: a not-found answer is treated like the other API failures
Classify_not_found_retries(api_result) ==
    CASE api_result = "ok" -> "True"
      [] api_result \in {"NotFound", "Forbidden", "HTTPException"} -> "False"
      [] OTHER -> "raise"

\* one gateway call inside try/except NotFound/Forbidden/HTTPException
Classify(api_result) ==
    CASE api_result = "ok" -> "True"
      [] api_result = "NotFound" -> "True"
      [] api_result = "Forbidden" -> "False"
      [] api_result = "HTTPException" -> "False"
      [] OTHER -> "raise"

perform_automatic_unban(guild_result, unban_result) ==
    LET guild == resolve_guild(guild_result)
    IN IF guild = "raise" THEN "raise"
       ELSE IF guild = None THEN "False"
       ELSE Classify(unban_result)

\* variant: an error of the member lookup is ignored and the outcome is the
\* one of member.timeout(None)
perform_automatic_unmute_ignores_member(guild_result, member_result, timeout_result) ==
    LET guild == resolve_guild(guild_result)
    IN IF guild = "raise" THEN "raise"
       ELSE IF guild = None THEN "False"
       ELSE Classify(timeout_result)

perform_automatic_unmute(guild_result, member_result, timeout_result) ==
    LET guild == resolve_guild(guild_result)
    IN IF guild = "raise" THEN "raise"
       ELSE IF guild = None THEN "False"
       ELSE IF member_result \notin {"cached", "ok"} THEN Classify(member_result)
       ELSE Classify(timeout_result)

\* the gateway calls resolve_guild awaits: none when the guild is cached
resolve_guild_calls(guild_result) ==
    IF guild_result = "cached" THEN <<>> ELSE <<"fetch_guild">>

\* the gateway calls perform_automatic_unban awaits, in order
perform_automatic_unban_calls(guild_result, unban_result) ==
    IF resolve_guild(guild_result) # "guild"
    THEN resolve_guild_calls(guild_result)
    ELSE resolve_guild_calls(guild_result) \o <<"unban">>

\* the gateway calls perform_automatic_unmute awaits, in order
perform_automatic_unmute_calls(guild_result, member_result, timeout_result) ==
    IF resolve_guild(guild_result) # "guild"
    THEN resolve_guild_calls(guild_result)
    ELSE IF member_result = "cached"
    THEN resolve_guild_calls(guild_result) \o <<"timeout">>
    ELSE IF member_result = "ok"
    THEN resolve_guild_calls(guild_result) \o <<"fetch_member", "timeout">>
    ELSE resolve_guild_calls(guild_result) \o <<"fetch_member">>

\* what the executor's calls tell about the sanction at the platform:
\* "lifted" when the lifting call has returned, "absent" when the platform
\* has answered NotFound (the ban or the member does not exist: the sanction
\* was lifted out of band), "kept" otherwise
PlatformAfter(api_result) ==
    CASE api_result = "ok" -> "lifted"
      [] api_result = "NotFound" -> "absent"
      [] OTHER -> "kept"

\* the sanction after perform_automatic_unban: guild.unban
perform_automatic_unban_platform(guild_result, unban_result) ==
    IF resolve_guild(guild_result) # "guild" THEN "kept"
    ELSE PlatformAfter(unban_result)

\* the sanction after perform_automatic_unmute: guild.fetch_member unless
\* the member is cached, then member.timeout(None)
perform_automatic_unmute_platform(guild_result, member_result, timeout_result) ==
    IF resolve_guild(guild_result) # "guild" THEN "kept"
    ELSE IF member_result = "NotFound" THEN "absent"
    ELSE IF member_result \notin {"cached", "ok"} THEN "kept"
    ELSE PlatformAfter(timeout_result)

\* ------------------------------------------- process_temporary_action
\* variant: a kind that is not ban is handled like mute
AfterSleep_mute_by_default(st, slot) ==
    [st EXCEPT !.tasks[slot].pc = "call",
               !.tasks[slot].attempts = st.tasks[slot].attempts + 1]

\* after the sleep: start the executor for ban/mute; any other kind deletes
\* the row and returns
AfterSleep(st, slot) ==
    LET task == st.tasks[slot]
    IN IF task.key[1] \in {ACTION_BAN, ACTION_MUTE}
       THEN [st EXCEPT !.tasks[slot].pc = "call",
                       !.tasks[slot].attempts = task.attempts + 1]
       ELSE [st EXCEPT !.store = delete_temporary_action(st.store, task.key),
                       !.tasks[slot].pc = "done",
                       !.tasks[slot].result = "returned"]

\* variant: the loop does not sleep before it calls the executor
LoopTop_no_sleep(st, slot, timestamp) == AfterSleep(st, slot)

\* variant: the loop always suspends in asyncio.sleep before the executor
LoopTop_always_sleeps(st, slot, timestamp) ==
    [st EXCEPT !.tasks[slot].pc = "sleep"]

\* top of the while loop: delay = max(0, next_attempt - now); sleep if > 0
LoopTop(st, slot, timestamp) ==
    LET delay == IF st.tasks[slot].next_attempt - timestamp > 0
                 THEN st.tasks[slot].next_attempt - timestamp ELSE 0
    IN IF delay > 0
       THEN [st EXCEPT !.tasks[slot].pc = "sleep"]
       ELSE AfterSleep(st, slot)

\* variant: the retry delay grows with the number of attempts
AfterCall_backoff_grows(st, slot, is_done, timestamp) ==
    LET task == st.tasks[slot]
    IN CASE is_done = "raise" ->
              [st EXCEPT !.tasks[slot].pc = "done", !.tasks[slot].result = "raised"]
         [] is_done = "True" ->
              [st EXCEPT !.store = delete_temporary_action(st.store, task.key),
                         !.tasks[slot].pc = "done",
                         !.tasks[slot].result = "returned"]
         [] OTHER ->
              LET next_attempt == timestamp + RETRY_DELAY_SECONDS * task.attempts
              IN [st EXCEPT !.tasks[slot].next_attempt = next_attempt,
                            !.tasks[slot].pc = "sleep",
                            !.store = save_temporary_action(
                                 st.store, task.key, next_attempt,
                                 task.reason, timestamp)]

\* variant: a retry ceiling, the task gives up at its second Retry
AfterCall_gives_up(st, slot, is_done, timestamp) ==
    LET task == st.tasks[slot]
    IN CASE is_done = "raise" ->
              [st EXCEPT !.tasks[slot].pc = "done", !.tasks[slot].result = "raised"]
         [] is_done = "True" \/ task.attempts >= 2 ->
              [st EXCEPT !.store = delete_temporary_action(st.store, task.key),
                         !.tasks[slot].pc = "done",
                         !.tasks[slot].result = "returned"]
         [] OTHER ->
              LET next_attempt == timestamp + RETRY_DELAY_SECONDS
              IN [st EXCEPT !.tasks[slot].next_attempt = next_attempt,
                            !.tasks[slot].pc = "sleep",
                            !.store = save_temporary_action(
                                 st.store, task.key, next_attempt,
                                 task.reason, timestamp)]

\* variant: a Done outcome returns without deleting the row
AfterCall_done_keeps_row(st, slot, is_done, timestamp) ==
    LET task == st.tasks[slot]
    IN CASE is_done \in {"raise", "True"} ->
              [st EXCEPT !.tasks[slot].pc = "done",
                         !.tasks[slot].result =
                              IF is_done = "True" THEN "returned" ELSE "raised"]
         [] OTHER ->
              LET next_attempt == timestamp + RETRY_DELAY_SECONDS
              IN [st EXCEPT !.tasks[slot].next_attempt = next_attempt,
                            !.tasks[slot].pc = "sleep",
                            !.store = save_temporary_action(
                                 st.store, task.key, next_attempt,
                                 task.reason, timestamp)]

\* variant: a Retry saves the time of the failed attempt, not the next one
AfterCall_saves_attempt_time(st, slot, is_done, timestamp) ==
    LET task == st.tasks[slot]
    IN CASE is_done = "raise" ->
              [st EXCEPT !.tasks[slot].pc = "done", !.tasks[slot].result = "raised"]
         [] is_done = "True" ->
              [st EXCEPT !.store = delete_temporary_action(st.store, task.key),
                         !.tasks[slot].pc = "done",
                         !.tasks[slot].result = "returned"]
         [] OTHER ->
              LET next_attempt == timestamp + RETRY_DELAY_SECONDS
              IN [st EXCEPT !.tasks[slot].next_attempt = next_attempt,
                            !.tasks[slot].pc = "sleep",
                            !.store = save_temporary_action(
                                 st.store, task.key, timestamp,
                                 task.reason, timestamp)]

\* is_done: delete the row and return; otherwise next_attempt = now + delay,
\* save the row and loop
AfterCall(st, slot, is_done, timestamp) ==
    LET task == st.tasks[slot]
    IN CASE is_done = "raise" ->
              [st EXCEPT !.tasks[slot].pc = "done", !.tasks[slot].result = "raised"]
         [] is_done = "True" ->
              [st EXCEPT !.store = delete_temporary_action(st.store, task.key),
                         !.tasks[slot].pc = "done",
                         !.tasks[slot].result = "returned"]
         [] OTHER ->
              LET next_attempt == timestamp + RETRY_DELAY_SECONDS
              IN LoopTop(
                    [st EXCEPT !.tasks[slot].next_attempt = next_attempt,
                               !.store = save_temporary_action(
                                    st.store, task.key, next_attempt,
                                    task.reason, timestamp)],
                    slot, timestamp)

Running(slot) ==
    /\ phase = "up"
    /\ tasks[slot] # NoTask
    /\ ~tasks[slot].must_cancel

Apply(st) ==
    /\ store' = st.store
    /\ tasks' = st.tasks
    /\ registry' = st.registry

\* first step of the task: the coroutine runs to its first suspension
TaskStart(slot) ==
    /\ Running(slot)
    /\ tasks[slot].pc = "start"
    /\ Apply(LoopTop(Sched, slot, now))
    /\ last' = IF tasks'[slot].pc = "done"
               THEN Event("unknown_kind", tasks[slot].key, slot, None,
                          DictGet(registry, tasks[slot].key), <<>>)
               ELSE Event("start", tasks[slot].key, slot, tasks'[slot].pc,
                          DictGet(registry, tasks[slot].key), <<>>)
    /\ UNCHANGED <<now, handlers, phase, commands, crashes>>
    /\ UNCHANGED aside

\* asyncio.sleep(delay) is over
TaskWake(slot) ==
    /\ Running(slot)
    /\ tasks[slot].pc = "sleep"
    /\ now >= tasks[slot].next_attempt
    /\ Apply(AfterSleep(Sched, slot))
    /\ last' = IF tasks'[slot].pc = "done"
               THEN Event("unknown_kind", tasks[slot].key, slot, None,
                          DictGet(registry, tasks[slot].key), <<>>)
               ELSE NoEvent
    /\ UNCHANGED <<now, handlers, phase, commands, crashes>>
    /\ UNCHANGED aside

\* what the executor can answer for the key, over the answers the gateway
\* can give to the guild fetch, the member fetch and the sanction call
ExecutorOutcomesOf(key, guild_results, member_results, api_results) ==
    IF key[1] = ACTION_BAN
    THEN {[is_done |-> perform_automatic_unban(guild_result, unban_result),
           platform |-> perform_automatic_unban_platform(guild_result, unban_result)] :
            guild_result \in guild_results, unban_result \in api_results}
    ELSE {[is_done |-> perform_automatic_unmute(guild_result, member_result,
                                                timeout_result),
           platform |-> perform_automatic_unmute_platform(
                            guild_result, member_result, timeout_result)] :
            guild_result \in guild_results, member_result \in member_results,
            timeout_result \in api_results}

\* what the executor can answer for the key, over all gateway results
ExecutorOutcomes(key, results) ==
    ExecutorOutcomesOf(key, GuildResults \cap results, MemberResults \cap results,
                       ApiResults \cap results)

\* the executor has answered is_done, after the platform has lifted the
\* sanction, found it absent or kept it, and the task runs on
TaskCallAnswered(slot, outcomes) ==
    /\ Running(slot)
    /\ tasks[slot].pc = "call"
    /\ \E outcome \in outcomes :
          /\ outcome.is_done = "False" => now + RETRY_DELAY_SECONDS <= MaxTime
          /\ Apply(AfterCall(Sched, slot, outcome.is_done, now))
          /\ sanctions' = IF outcome.platform \in {"lifted", "absent"}
                          THEN Sanctioned(tasks[slot].key, FALSE)
                          ELSE sanctions
          /\ last' = Event("executor", tasks[slot].key, slot, outcome.is_done,
                           DictGet(registry, tasks[slot].key), <<outcome.platform>>)
    /\ UNCHANGED <<now, handlers, phase, commands, crashes>>
    /\ UNCHANGED <<probe, ticket_vars>>

\* the executor's gateway calls are answered and the task runs on
TaskCallReturn(slot, results) ==
    TaskCallAnswered(slot, IF tasks[slot] = NoTask THEN {}
                           ELSE ExecutorOutcomes(tasks[slot].key, results))

\* variant: a cancelled task whose executor call is in flight gets the call's
\* answer first and handles it as a Retry before it observes the cancellation
TaskCancelled_call_completes(slot) ==
    /\ phase = "up"
    /\ tasks[slot] # NoTask
    /\ tasks[slot].must_cancel
    /\ tasks[slot].pc # "done"
    /\ IF tasks[slot].pc = "call" /\ now + RETRY_DELAY_SECONDS <= MaxTime
       THEN Apply(AfterCall(Sched, slot, "False", now))
       ELSE /\ tasks' = [tasks EXCEPT ![slot].pc = "done", ![slot].result = "cancelled"]
            /\ UNCHANGED <<store, registry>>
    /\ last' = NoEvent
    /\ UNCHANGED <<now, handlers, phase, commands, crashes>>
    /\ UNCHANGED aside

\* task.cancel() is observed at the task's suspension point: CancelledError
TaskCancelled(slot) ==
    /\ phase = "up"
    /\ tasks[slot] # NoTask
    /\ tasks[slot].must_cancel
    /\ tasks[slot].pc # "done"
    /\ tasks' = [tasks EXCEPT ![slot].pc = "done", ![slot].result = "cancelled"]
    /\ last' = NoEvent
    /\ UNCHANGED <<now, store, registry, handlers, phase, commands, crashes>>
    /\ UNCHANGED aside

\* variant: the done callback leaves the registry alone
done_callback_keeps(reg, key, finished) == reg

\* variant: the done callback pops the key whatever task the registry holds
done_callback_always_pops(reg, key, finished) == DictPop(reg, key)

\* the done callback: pop the key if the registry still holds this task
done_callback(reg, key, finished) ==
    IF DictGet(reg, key) = finished THEN DictPop(reg, key) ELSE reg

\* the loop runs the finished task's callbacks (log_background_error, lambda)
TaskDoneCallback(slot) ==
    /\ phase = "up"
    /\ tasks[slot] # NoTask
    /\ tasks[slot].pc = "done"
    /\ registry' = done_callback(registry, tasks[slot].key, slot)
    /\ tasks' = [tasks EXCEPT ![slot] = NoTask]
    /\ last' = Event("callback", tasks[slot].key, slot, tasks[slot].result,
                     DictGet(registry, tasks[slot].key), <<>>)
    /\ UNCHANGED <<now, store, handlers, phase, commands, crashes>>
    /\ UNCHANGED aside

\* ------------------------------------------------------ cogs/moderation.py
BanKeys == {k \in Keys : k[1] = ACTION_BAN}
MuteKeys == {k \in Keys : k[1] = ACTION_MUTE}

unban_reason(reason) == <<"Temporary ban expired. Original reason: ", reason>>
unmute_reason(reason) == <<"Temporary mute expired. Original reason: ", reason>>

\* results of the platform call a command handler awaits
CommandResults == {"ok", "NotFound", "Forbidden", "HTTPException"}

\* save_temporary_action then schedule_temporary_action, with no suspension
\* between them
SaveAndSchedule(st, key, expires_at, reason, timestamp) ==
    schedule_temporary_action(
        [st EXCEPT !.store = save_temporary_action(st.store, key, expires_at,
                                                   reason, timestamp)],
        key, expires_at, reason)

\* /ban with a duration parse_duration raises on: ValueError is answered with
\* "Invalid duration", any other exception ends the handler; nothing is
\* called or written before
BanRefused(h, key, duration, reason) ==
    /\ phase = "up"
    /\ handlers[h] = Idle
    /\ ParsedDurations[duration].error # None
    /\ last' = Event("ban", key, 0, ParsedDurations[duration].exception, 0, <<duration>>)
    /\ UNCHANGED <<now, store, tasks, registry, handlers, phase, commands, crashes>>
    /\ UNCHANGED aside

\* /ban: validation and parse_duration pass; the handler awaits guild.ban,
\* which the platform performs (applied) or refuses
Ban(h, key, duration, reason) ==
    /\ phase = "up"
    /\ handlers[h] = Idle
    /\ LET parsed_duration == ParsedDurations[duration]
       IN /\ parsed_duration.error = None
          /\ \E applied \in BOOLEAN :
                /\ handlers' = [handlers EXCEPT ![h] =
                       [op |-> "ban", key |-> key,
                        seconds |-> parsed_duration.total_seconds,
                        expires_at |-> 0, reason |-> reason, applied |-> applied]]
                /\ sanctions' = IF applied THEN Sanctioned(key, TRUE) ELSE sanctions
    /\ last' = NoEvent
    /\ UNCHANGED <<now, store, tasks, registry, phase, crashes>>
    /\ UNCHANGED <<probe, ticket_vars>>
    /\ commands < MaxCommands
    /\ commands' = commands + 1

\* guild.ban answered: on success expires_at = now + seconds, save, schedule
BanResume(h) ==
    /\ phase = "up"
    /\ handlers[h] # Idle
    /\ handlers[h].op = "ban"
    /\ \E result \in CommandResults :
        LET cmd == handlers[h]
            expires_at == now + cmd.seconds
        IN (result = "ok") = cmd.applied /\
           IF result = "ok"
           THEN /\ expires_at <= MaxTime
                /\ FreeSlots(tasks) # {}
                /\ Apply(SaveAndSchedule(Sched, cmd.key, expires_at,
                                         unban_reason(cmd.reason), now))
                /\ last' = Event("schedule", cmd.key, registry'[cmd.key], "ok",
                                 DictGet(registry, cmd.key),
                                 <<expires_at, unban_reason(cmd.reason)>>)
           ELSE /\ UNCHANGED <<store, tasks, registry>>
                /\ last' = NoEvent
    /\ handlers' = [handlers EXCEPT ![h] = Idle]
    /\ UNCHANGED <<now, phase, commands, crashes>>
    /\ UNCHANGED aside

\* the input checks of /mute: parse_duration raised, or the duration is
\* above timedelta(days=28)
mute_input_error(parsed_duration) ==
    IF parsed_duration.error # None THEN parsed_duration.exception
    ELSE IF parsed_duration.total_seconds > MUTE_LIMIT_DAYS * 86400
    THEN "Mute duration cannot exceed 28 days."
    ELSE None

\* /mute with a duration that fails the input checks: the handler replies
\* and returns (or ends with the exception) before user.timeout
MuteRefused(h, key, duration, reason) ==
    /\ phase = "up"
    /\ handlers[h] = Idle
    /\ mute_input_error(ParsedDurations[duration]) # None
    /\ last' = Event("mute", key, 0, mute_input_error(ParsedDurations[duration]), 0,
                     <<duration>>)
    /\ UNCHANGED <<now, store, tasks, registry, handlers, phase, commands, crashes>>
    /\ UNCHANGED aside

\* /mute: validation and parse_duration pass, at most 28 days; expires_at is
\* computed before the handler awaits user.timeout, which the platform
\* performs (applied) or refuses
Mute(h, key, duration, reason) ==
    /\ phase = "up"
    /\ handlers[h] = Idle
    /\ LET parsed_duration == ParsedDurations[duration]
       IN /\ mute_input_error(parsed_duration) = None
          /\ now + parsed_duration.total_seconds <= MaxTime
          /\ \E applied \in BOOLEAN :
                /\ handlers' = [handlers EXCEPT ![h] =
                       [op |-> "mute", key |-> key,
                        seconds |-> parsed_duration.total_seconds,
                        expires_at |-> now + parsed_duration.total_seconds,
                        reason |-> reason, applied |-> applied]]
                /\ sanctions' = IF applied THEN Sanctioned(key, TRUE) ELSE sanctions
    /\ last' = NoEvent
    /\ UNCHANGED <<now, store, tasks, registry, phase, crashes>>
    /\ UNCHANGED <<probe, ticket_vars>>
    /\ commands < MaxCommands
    /\ commands' = commands + 1

\* user.timeout answered: on success save and schedule
MuteResume(h) ==
    /\ phase = "up"
    /\ handlers[h] # Idle
    /\ handlers[h].op = "mute"
    /\ \E result \in CommandResults :
        LET cmd == handlers[h]
        IN (result = "ok") = cmd.applied /\
           IF result = "ok"
           THEN /\ FreeSlots(tasks) # {}
                /\ Apply(SaveAndSchedule(Sched, cmd.key, cmd.expires_at,
                                         unmute_reason(cmd.reason), now))
                /\ last' = Event("schedule", cmd.key, registry'[cmd.key], "ok",
                                 DictGet(registry, cmd.key),
                                 <<cmd.expires_at, unmute_reason(cmd.reason)>>)
           ELSE /\ UNCHANGED <<store, tasks, registry>>
                /\ last' = NoEvent
    /\ handlers' = [handlers EXCEPT ![h] = Idle]
    /\ UNCHANGED <<now, phase, commands, crashes>>
    /\ UNCHANGED aside

\* /unban and /unmute: validation passes (for /unmute the member is timed
\* out); the handler awaits guild.unban or user.timeout(None), which the
\* platform performs (applied) or refuses
Lift(h, key) ==
    /\ phase = "up"
    /\ handlers[h] = Idle
    /\ \E applied \in BOOLEAN :
          /\ handlers' = [handlers EXCEPT ![h] =
                 [op |-> IF key[1] = ACTION_BAN THEN "unban" ELSE "unmute",
                  key |-> key, seconds |-> 0, expires_at |-> 0, reason |-> None,
                  applied |-> applied]]
          /\ sanctions' = IF applied THEN Sanctioned(key, FALSE) ELSE sanctions
    /\ last' = NoEvent
    /\ UNCHANGED <<now, store, tasks, registry, phase, crashes>>
    /\ UNCHANGED <<probe, ticket_vars>>
    /\ commands < MaxCommands
    /\ commands' = commands + 1

\* the platform answered: on success cancel_temporary_action(delete_from_db=True)
LiftResume(h) ==
    /\ phase = "up"
    /\ handlers[h] # Idle
    /\ handlers[h].op \in {"unban", "unmute"}
    /\ \E result \in CommandResults :
        LET cmd == handlers[h]
        IN (result = "ok") = cmd.applied /\
           IF result = "ok"
           THEN /\ Apply(cancel_temporary_action(Sched, cmd.key, TRUE))
                /\ last' = Event("cancel", cmd.key, 0, "ok",
                                 DictGet(registry, cmd.key), <<>>)
           ELSE /\ UNCHANGED <<store, tasks, registry>>
                /\ last' = NoEvent
    /\ handlers' = [handlers EXCEPT ![h] = Idle]
    /\ UNCHANGED <<now, phase, commands, crashes>>
    /\ UNCHANGED aside

\* ------------------------------------------------------- process lifecycle
\* setup_hook / cog_load: init_database (CREATE TABLE IF NOT EXISTS keeps the
\* rows), then restore_temporary_actions, which has no suspension point
Startup ==
    /\ phase = "down"
    /\ Apply(restore_temporary_actions(Sched))
    /\ phase' = "up"
    /\ last' = Event("restore", NoKey, 0, None, 0, <<>>)
    /\ UNCHANGED <<now, handlers, commands, crashes>>
    /\ UNCHANGED aside

\* the moderation extension is loaded again while the process runs: cog_load
\* awaits restore_temporary_actions once more
CogLoad ==
    /\ phase = "up"
    /\ Cardinality(FreeSlots(tasks)) >= Cardinality(store)
    /\ Apply(restore_temporary_actions(Sched))
    /\ last' = Event("reload", NoKey, 0, None, 0, <<>>)
    /\ UNCHANGED <<now, handlers, phase, commands, crashes>>
    /\ UNCHANGED aside

\* the process stops: tasks, registry and handlers are gone, the table stays
Crash ==
    /\ phase = "up"
    /\ tasks' = [s \in Slots |-> NoTask]
    /\ registry' = EmptyDict
    /\ handlers' = [h \in Handlers |-> Idle]
    /\ phase' = "down"
    /\ last' = Event("crash", NoKey, 0, None, 0, <<>>)
    /\ crashes < MaxCrashes
    /\ crashes' = crashes + 1
    /\ UNCHANGED <<now, store, commands>>
    /\ UNCHANGED aside

\* time passes, also while the process is down
Tick ==
    /\ now < MaxTime
    /\ now' = IF now + TickSeconds <= MaxTime THEN now + TickSeconds ELSE MaxTime
    /\ last' = NoEvent
    /\ UNCHANGED <<store, tasks, registry, handlers, phase, commands, crashes>>
    /\ UNCHANGED aside

\* --------------------------------------------------- kiero_bot/tickets.py
TicketGuild == 1
\* members who open tickets, members who have the configured support role
TicketUsers == {7, 8}
SupportMembers == {8}
TicketActors == TicketUsers \cup SupportMembers
CategoryId == 10
SupportRoleId == 20
LogChannelId == 30
\* a text channel of the guild that is no ticket channel
OtherChannel == 50
\* channel ids the platform gives to new channels start above this
FirstChannelId == 100
\* an SQL NULL in an integer column, an Optional[int] that is None
NULL == -1
\* max_open_tickets values and log_channel arguments of /ticketconfig setup
MaxOpenChoices == {1, 2}
LogChannelChoices == {LogChannelId}
\* a second category and a second role of the guild
OtherCategoryId == 11
OtherSupportRoleId == 21
\* channel arguments of /ticketconfig panel
PanelChannels == {OtherChannel, LogChannelId}
\* subject arguments: /ticket open without subject, and the panel button
Subjects == {"Opened from ticket panel."}
\* reason arguments of /ticket close and of the close modal
CloseReasons == {None, "resolved"}
Interactions == 1..MaxInteractions

\* a text of n characters
RECURSIVE Filled(_)
Filled(n) ==
    IF n = 0 THEN ""
    ELSE IF n % 2 = 0 THEN LET half == Filled(n \div 2) IN half \o half
    ELSE "x" \o Filled(n - 1)

\* subjects and close reasons at their length limit and one character above
LongestSubject == Filled(MAX_TICKET_SUBJECT_LENGTH)
OverlongSubject == Filled(MAX_TICKET_SUBJECT_LENGTH + 1)
LongestCloseReason == Filled(MAX_TICKET_CLOSE_REASON_LENGTH)
OverlongCloseReason == Filled(MAX_TICKET_CLOSE_REASON_LENGTH + 1)

NoSettings == [guild_id |-> NULL]
NoTicket == [channel_id |-> NULL]
NoEffects == [notice |-> 0, log |-> 0, delete |-> 0]

\* the ASCII letters, for str.lower()
Lowercase == <<"a", "b", "c", "d", "e", "f", "g", "h", "i", "j", "k", "l", "m",
               "n", "o", "p", "q", "r", "s", "t", "u", "v", "w", "x", "y", "z">>
Uppercase == <<"A", "B", "C", "D", "E", "F", "G", "H", "I", "J", "K", "L", "M",
               "N", "O", "P", "Q", "R", "S", "T", "U", "V", "W", "X", "Y", "Z">>

\* str.lower() on ASCII text
lower(text) ==
    [i \in DOMAIN text |->
        IF \E j \in DOMAIN Uppercase : Uppercase[j] = text[i]
        THEN Lowercase[CHOOSE j \in DOMAIN Uppercase : Uppercase[j] = text[i]]
        ELSE text[i]]

\* str.replace(old, new) for single characters
replace(text, old, new) ==
    [i \in DOMAIN text |-> IF text[i] = old THEN new ELSE text[i]]

\* the characters of the class [a-z0-9-]
PrefixCharacters ==
    {Lowercase[i] : i \in DOMAIN Lowercase} \cup {Digits[i] : i \in DOMAIN Digits}
        \cup {"-"}

\* re.sub(r"[^a-z0-9-]", "", text)
drop_other_characters(text) == SelectSeq(text, LAMBDA c : c \in PrefixCharacters)

\* re.sub(r"-{2,}", "-", text): every run of hyphens becomes one hyphen
RECURSIVE collapse_hyphens(_)
collapse_hyphens(text) ==
    IF Len(text) < 2 THEN text
    ELSE IF text[1] = "-" /\ text[2] = "-" THEN collapse_hyphens(Tail(text))
    ELSE <<text[1]>> \o collapse_hyphens(Tail(text))

\* str.strip("-")
RECURSIVE strip_hyphens(_)
strip_hyphens(text) ==
    IF text = <<>> THEN text
    ELSE IF Head(text) = "-" THEN strip_hyphens(Tail(text))
    ELSE IF text[Len(text)] = "-"
    THEN strip_hyphens(SubSeq(text, 1, Len(text) - 1))
    ELSE text

\* the None of an Optional[str]
NoPrefix == <<None>>

\* sanitize_ticket_prefix: strip, lower, blanks to hyphens, drop what is not
\* in [a-z0-9-], collapse hyphen runs, strip hyphens; None when nothing is
\* left, else the first 24 characters
sanitize_ticket_prefix(raw_prefix) ==
    LET normalized == strip_hyphens(collapse_hyphens(drop_other_characters(
                          replace(lower(strip(raw_prefix)), " ", "-"))))
    IN IF normalized = <<>> THEN NoPrefix
       ELSE SubSeq(normalized, 1, IF Len(normalized) < 24 THEN Len(normalized) ELSE 24)

\* ticket_prefix arguments of /ticketconfig setup: the default, "Help Desk"
\* and "!"
PrefixChoices ==
    {DEFAULT_TICKET_PREFIX, <<"H", "e", "l", "p", " ", "D", "e", "s", "k">>, <<"!">>}

\* sanitize_ticket_prefix(ticket_prefix) for these arguments
SanitizedPrefixes == [raw_prefix \in PrefixChoices |-> sanitize_ticket_prefix(raw_prefix)]

\* INSERT INTO ticket_settings ... ON CONFLICT(guild_id) DO UPDATE SET all
\* the other columns
save_ticket_settings(table, settings) ==
    {row \in table : row.guild_id # settings.guild_id} \cup {settings}

\* SELECT ... FROM ticket_settings WHERE guild_id = ?
get_ticket_settings(table, guild_id) ==
    IF \E row \in table : row.guild_id = guild_id
    THEN CHOOSE row \in table : row.guild_id = guild_id
    ELSE NoSettings

\* variant: the counter advances by two once its row exists
next_ticket_number_skips(table, guild_id) ==
    IF ~\E row \in table : row.guild_id = guild_id
    THEN [table |-> table \cup {[guild_id |-> guild_id, last_number |-> 1]},
          next_number |-> 1]
    ELSE LET row == CHOOSE r \in table : r.guild_id = guild_id
         IN [table |-> (table \ {row})
                          \cup {[guild_id |-> guild_id,
                                 last_number |-> row.last_number + 2]},
             next_number |-> row.last_number + 2]

\* variant: the UPDATE of an existing counter row is missing
next_ticket_number_stale(table, guild_id) ==
    IF ~\E row \in table : row.guild_id = guild_id
    THEN [table |-> table \cup {[guild_id |-> guild_id, last_number |-> 1]},
          next_number |-> 1]
    ELSE LET row == CHOOSE r \in table : r.guild_id = guild_id
         IN [table |-> table, next_number |-> row.last_number + 1]

\* variant: the number is taken from the open rows of the tickets table, one
\* above the highest of them
next_ticket_number_reuses(table, guild_id) ==
    LET open_numbers == {row.ticket_number : row \in
                            {r \in tickets : /\ r.guild_id = guild_id
                                             /\ r.status = ACTION_TICKET_OPEN}}
        next_number == IF open_numbers = {} THEN 1
                       ELSE (CHOOSE n \in open_numbers :
                                \A o \in open_numbers : o <= n) + 1
    IN [table |-> {row \in table : row.guild_id # guild_id}
                     \cup {[guild_id |-> guild_id, last_number |-> next_number]},
        next_number |-> next_number]

\* SELECT last_number; no row: INSERT 1; else UPDATE to last_number + 1;
\* commit; the function has no suspension point
next_ticket_number(table, guild_id) ==
    IF ~\E row \in table : row.guild_id = guild_id
    THEN [table |-> table \cup {[guild_id |-> guild_id, last_number |-> 1]},
          next_number |-> 1]
    ELSE LET row == CHOOSE r \in table : r.guild_id = guild_id
             next_number == row.last_number + 1
         IN [table |-> (table \ {row})
                          \cup {[guild_id |-> guild_id,
                                 last_number |-> next_number]},
             next_number |-> next_number]

\* the last_number of the guild's counter row, 0 when there is no row
LastNumber(table, guild_id) ==
    IF \E row \in table : row.guild_id = guild_id
    THEN (CHOOSE row \in table : row.guild_id = guild_id).last_number
    ELSE 0

\* variant: the row is inserted as closed
create_ticket_record_closed(table, channel_id, guild_id, ticket_number, owner_id, subject, timestamp) ==
    table \cup {[channel_id |-> channel_id, guild_id |-> guild_id,
                 ticket_number |-> ticket_number, owner_id |-> owner_id,
                 status |-> ACTION_TICKET_CLOSED, subject |-> subject,
                 created_at |-> timestamp, closed_at |-> NULL,
                 closed_by |-> NULL, closed_reason |-> None]}

\* INSERT INTO tickets: channel_id is the primary key and (guild_id,
\* ticket_number) is unique; a conflicting insert raises and adds nothing
create_ticket_record(table, channel_id, guild_id, ticket_number, owner_id, subject, timestamp) ==
    IF \E row \in table :
          \/ row.channel_id = channel_id
          \/ row.guild_id = guild_id /\ row.ticket_number = ticket_number
    THEN table
    ELSE table \cup {[channel_id |-> channel_id, guild_id |-> guild_id,
                      ticket_number |-> ticket_number, owner_id |-> owner_id,
                      status |-> ACTION_TICKET_OPEN, subject |-> subject,
                      created_at |-> timestamp, closed_at |-> NULL,
                      closed_by |-> NULL, closed_reason |-> None]}

\* variant: the SELECT does not look at the status
get_open_ticket_by_channel_any_status(table, channel_id) ==
    IF \E row \in table : row.channel_id = channel_id
    THEN CHOOSE row \in table : row.channel_id = channel_id
    ELSE NoTicket

\* SELECT ... FROM tickets WHERE channel_id = ? AND status = 'open'
get_open_ticket_by_channel(table, channel_id) ==
    IF \E row \in table :
          row.channel_id = channel_id /\ row.status = ACTION_TICKET_OPEN
    THEN CHOOSE row \in table :
          row.channel_id = channel_id /\ row.status = ACTION_TICKET_OPEN
    ELSE NoTicket

\* variant: the COUNT compares the status with 'closed'
count_open_tickets_for_owner_wrong_status(table, guild_id, owner_id) ==
    Cardinality({row \in table : /\ row.guild_id = guild_id
                                 /\ row.owner_id = owner_id
                                 /\ row.status = ACTION_TICKET_CLOSED})

\* SELECT COUNT(*) FROM tickets WHERE guild_id, owner_id, status = 'open'
count_open_tickets_for_owner(table, guild_id, owner_id) ==
    Cardinality({row \in table : /\ row.guild_id = guild_id
                                 /\ row.owner_id = owner_id
                                 /\ row.status = ACTION_TICKET_OPEN})

\* variant: the UPDATE is not restricted to the channel
close_ticket_record_every_channel(table, channel_id, closed_by, close_reason, timestamp) ==
    {IF row.status = ACTION_TICKET_OPEN
     THEN [row EXCEPT !.status = ACTION_TICKET_CLOSED, !.closed_at = timestamp,
                      !.closed_by = closed_by, !.closed_reason = close_reason]
     ELSE row : row \in table}

\* variant: the row of the closed ticket is deleted
close_ticket_record_deletes(table, channel_id, closed_by, close_reason, timestamp) ==
    {row \in table : ~(row.channel_id = channel_id /\ row.status = ACTION_TICKET_OPEN)}

\* UPDATE tickets SET status = 'closed', closed_at, closed_by, closed_reason
\* WHERE channel_id = ? AND status = 'open'
close_ticket_record(table, channel_id, closed_by, close_reason, timestamp) ==
    {IF row.channel_id = channel_id /\ row.status = ACTION_TICKET_OPEN
     THEN [row EXCEPT !.status = ACTION_TICKET_CLOSED, !.closed_at = timestamp,
                      !.closed_by = closed_by, !.closed_reason = close_reason]
     ELSE row : row \in table}

\* member_is_ticket_support: settings exist and the member has the role
member_is_ticket_support(member, settings) ==
    settings # NoSettings /\ member \in SupportMembers

\* variant: the quota is compared with > where the code has >=
quota_reached_strict(current_open_tickets, settings) ==
    current_open_tickets > settings.max_open_tickets

\* current_open_tickets >= settings.max_open_tickets
quota_reached(current_open_tickets, settings) ==
    current_open_tickets >= settings.max_open_tickets

\* len(cleaned_subject) > MAX_TICKET_SUBJECT_LENGTH
subject_too_long(cleaned_subject) == Len(cleaned_subject) > MAX_TICKET_SUBJECT_LENGTH

\* variant: the close reason is not checked
close_reason_too_long_unchecked(close_reason) == FALSE

\* len(close_reason) > MAX_TICKET_CLOSE_REASON_LENGTH
close_reason_too_long(close_reason) ==
    Len(close_reason) > MAX_TICKET_CLOSE_REASON_LENGTH

\* (text or default).strip(), and the default again when that is empty; the
\* texts of the model carry no outer whitespace and are not empty
clean_text(text, default) == IF text = None THEN default ELSE text

EffectsOf(channel_id) ==
    IF channel_id \in DOMAIN effects THEN effects[channel_id] ELSE NoEffects

FreeInteractions == {h \in Interactions : interactions[h] = Idle}
\* a new interaction takes the lowest free handler
NewInteraction(h) ==
    /\ phase = "up"
    /\ h \in FreeInteractions
    /\ \A o \in FreeInteractions : h <= o

TicketEvent(op, h, outcome, arg) == Event(op, NoKey, h, outcome, 0, arg)

\* what a ticket interaction leaves alone
NotTickets == <<now, store, tasks, registry, handlers, phase, commands, crashes,
                probe, sanctions>>

\* /ticketconfig setup: validate_permission passes; a prefix that sanitizes
\* to nothing is refused; the panel channel of an existing row is kept;
\* save_ticket_settings. The handler has no suspension point before its reply
TicketSetup(category, support_role, max_open_tickets, ticket_prefix, log_channel) ==
    /\ phase = "up"
    /\ LET normalized_prefix == SanitizedPrefixes[ticket_prefix]
           existing_settings == get_ticket_settings(ticket_settings, TicketGuild)
           settings ==
               [guild_id |-> TicketGuild,
                category_id |-> category,
                support_role_id |-> support_role,
                log_channel_id |-> log_channel,
                panel_channel_id |-> IF existing_settings # NoSettings
                                     THEN existing_settings.panel_channel_id
                                     ELSE NULL,
                max_open_tickets |-> max_open_tickets,
                ticket_name_prefix |-> normalized_prefix]
       IN IF normalized_prefix = NoPrefix
          THEN /\ last' = TicketEvent("ticket_setup", 0, "invalid_prefix", <<>>)
               /\ UNCHANGED <<ticket_settings, races>>
          ELSE /\ ticket_settings' = save_ticket_settings(ticket_settings, settings)
               /\ races' = [races EXCEPT !.reconfigured =
                               @ \/ (existing_settings # NoSettings
                                       /\ existing_settings # settings)]
               /\ last' = TicketEvent("ticket_setup", 0, "saved",
                                      <<category, support_role, max_open_tickets,
                                        normalized_prefix, log_channel>>)
    /\ UNCHANGED <<ticket_counters, tickets, channels, interactions, effects>>
    /\ UNCHANGED NotTickets

\* variant: the UPDATE also clears the log channel
update_ticket_panel_channel_clears_log(table, guild_id, panel_channel_id) ==
    {IF row.guild_id = guild_id
     THEN [row EXCEPT !.panel_channel_id = panel_channel_id, !.log_channel_id = NULL]
     ELSE row : row \in table}

\* UPDATE ticket_settings SET panel_channel_id = ? WHERE guild_id = ?
update_ticket_panel_channel(table, guild_id, panel_channel_id) ==
    {IF row.guild_id = guild_id
     THEN [row EXCEPT !.panel_channel_id = panel_channel_id]
     ELSE row : row \in table}

\* /ticketconfig panel up to its await of target_channel.send:
\* validate_permission passes, the settings must exist, the target is a text
\* channel
TicketPanel(h, channel) ==
    /\ NewInteraction(h)
    /\ LET settings == get_ticket_settings(ticket_settings, TicketGuild)
       IN IF settings = NoSettings
          THEN /\ last' = TicketEvent("ticket_panel", h, "not_configured", <<channel>>)
               /\ UNCHANGED interactions
          ELSE /\ last' = NoEvent
               /\ interactions' = [interactions EXCEPT ![h] =
                      [op |-> "panel", channel_id |-> channel]]
    /\ UNCHANGED <<ticket_settings, ticket_counters, tickets, channels, effects,
                   races>>
    /\ UNCHANGED NotTickets

\* target_channel.send answered: after a delivered panel message
\* update_ticket_panel_channel; Forbidden and HTTPException end the command
TicketPanelResume(h) ==
    /\ phase = "up"
    /\ interactions[h].op = "panel"
    /\ \E result \in {"ok", "Forbidden", "HTTPException"} :
        /\ ticket_settings' =
               IF result = "ok"
               THEN update_ticket_panel_channel(ticket_settings, TicketGuild,
                                                interactions[h].channel_id)
               ELSE ticket_settings
        /\ last' = TicketEvent("ticket_panel", h,
                               IF result = "ok" THEN "sent" ELSE result,
                               <<interactions[h].channel_id>>)
    /\ interactions' = [interactions EXCEPT ![h] = Idle]
    /\ UNCHANGED <<ticket_counters, tickets, channels, effects, races>>
    /\ UNCHANGED NotTickets

\* create_ticket_for_interaction up to its await of create_text_channel: the
\* settings, the quota gate, the subject's length, then next_ticket_number
TicketOpen(h, user, subject) ==
    /\ NewInteraction(h)
    /\ LET settings == get_ticket_settings(ticket_settings, TicketGuild)
           current_open_tickets ==
               count_open_tickets_for_owner(tickets, TicketGuild, user)
           cleaned_subject == clean_text(subject, "No subject provided.")
           issued == next_ticket_number(ticket_counters, TicketGuild)
       IN IF settings = NoSettings
          THEN /\ last' = TicketEvent("ticket_open", h, "not_configured", <<user>>)
               /\ UNCHANGED ticket_vars
          ELSE IF quota_reached(current_open_tickets, settings)
          THEN /\ last' = TicketEvent("ticket_open", h, "quota", <<user>>)
               /\ UNCHANGED ticket_vars
          ELSE IF subject_too_long(cleaned_subject)
          THEN /\ last' = TicketEvent("ticket_open", h, "subject_too_long", <<user>>)
               /\ UNCHANGED ticket_vars
          ELSE /\ LastNumber(ticket_counters, TicketGuild) < MaxTickets
               /\ ticket_counters' = issued.table
               /\ interactions' = [interactions EXCEPT ![h] =
                      [op |-> "open", actor |-> user,
                       ticket_number |-> issued.next_number,
                       subject |-> cleaned_subject]]
               /\ races' = [races EXCEPT !.overlap =
                      IF \E o \in Interactions :
                            /\ interactions[o].op = "open"
                            /\ interactions[o].actor = user
                      THEN @ \cup {user} ELSE @]
               /\ last' = TicketEvent("ticket_open", h, "pending",
                                      <<user, issued.next_number>>)
               /\ UNCHANGED <<ticket_settings, tickets, channels, effects>>
    /\ UNCHANGED NotTickets

\* create_text_channel answered: on success the platform has made a channel
\* with a new id and the handler inserts the ticket row; the messages it
\* sends afterwards change nothing
TicketOpenResume(h) ==
    /\ phase = "up"
    /\ interactions[h].op = "open"
    /\ \E result \in {"ok", "Forbidden", "HTTPException"} :
        LET request == interactions[h]
            channel_id == FirstChannelId + channels.created + 1
            inserted == create_ticket_record(tickets, channel_id, TicketGuild,
                                             request.ticket_number, request.actor,
                                             request.subject, now)
        IN IF result = "ok"
           THEN /\ channels' = [existing |-> channels.existing \cup {channel_id},
                                created |-> channels.created + 1]
                /\ tickets' = inserted
                /\ last' = TicketEvent("ticket_created", h,
                               IF inserted = tickets THEN "IntegrityError" ELSE "ok",
                               <<request.actor, request.ticket_number, channel_id>>)
           ELSE /\ UNCHANGED <<channels, tickets>>
                /\ last' = TicketEvent("ticket_created", h, result,
                               <<request.actor, request.ticket_number, NULL>>)
    /\ interactions' = [interactions EXCEPT ![h] = Idle]
    /\ UNCHANGED <<ticket_settings, ticket_counters, effects, races>>
    /\ UNCHANGED NotTickets

\* the text channels an interaction can come from
TextChannels == channels.existing \cup {OtherChannel}

\* resolve_ticket_close_context: the channel is a text channel, it is an open
\* ticket, and the actor is the owner or has the support role
resolve_ticket_close_context(actor, channel_id) ==
    LET ticket == get_open_ticket_by_channel(tickets, channel_id)
        settings == get_ticket_settings(ticket_settings, TicketGuild)
    IN IF channel_id \notin TextChannels
       THEN [error |-> "not_text_channel", ticket |-> NoTicket, settings |-> NoSettings]
       ELSE IF ticket = NoTicket
       THEN [error |-> "not_open", ticket |-> NoTicket, settings |-> NoSettings]
       ELSE IF actor # ticket.owner_id /\ ~member_is_ticket_support(actor, settings)
       THEN [error |-> "forbidden", ticket |-> ticket, settings |-> settings]
       ELSE [error |-> None, ticket |-> ticket, settings |-> settings]

\* TicketCloseView.close_ticket_button: the context is resolved and the
\* reason modal is sent
TicketCloseButton(h, actor, channel_id) ==
    /\ NewInteraction(h)
    /\ channel_id \in TextChannels
    /\ LET context == resolve_ticket_close_context(actor, channel_id)
       IN IF context.error # None
          THEN /\ last' = NoEvent
               /\ UNCHANGED interactions
          ELSE /\ last' = NoEvent
               /\ interactions' = [interactions EXCEPT ![h] =
                      [op |-> "modal", actor |-> actor, channel_id |-> channel_id]]
    /\ UNCHANGED <<ticket_settings, ticket_counters, tickets, channels, effects,
                   races>>
    /\ UNCHANGED NotTickets

\* the user dismisses the reason modal
TicketModalDismiss(h) ==
    /\ phase = "up"
    /\ interactions[h].op = "modal"
    /\ interactions' = [interactions EXCEPT ![h] = Idle]
    /\ last' = NoEvent
    /\ UNCHANGED <<ticket_settings, ticket_counters, tickets, channels, effects,
                   races>>
    /\ UNCHANGED NotTickets

\* close_ticket_for_interaction up to its first await after the update: the
\* context, the reason and its length, close_ticket_record; none of them
\* suspends
close_ticket_for_interaction(h, actor, channel_id, reason) ==
    LET context == resolve_ticket_close_context(actor, channel_id)
        close_reason == clean_text(reason, "No reason provided.")
        closed == close_ticket_record(tickets, channel_id, actor, close_reason, now)
    IN IF context.error # None
       THEN /\ interactions' = [interactions EXCEPT ![h] = Idle]
            /\ last' = TicketEvent("ticket_close", h, context.error,
                                   <<actor, channel_id, close_reason>>)
            /\ UNCHANGED tickets
       ELSE IF close_reason_too_long(close_reason)
       THEN /\ interactions' = [interactions EXCEPT ![h] = Idle]
            /\ last' = TicketEvent("ticket_close", h, "reason_too_long",
                                   <<actor, channel_id, close_reason>>)
            /\ UNCHANGED tickets
       ELSE /\ tickets' = closed
            /\ interactions' = [interactions EXCEPT ![h] =
                   [op |-> "close", pc |-> "notice", actor |-> actor,
                    channel_id |-> channel_id,
                    log_channel_id |-> context.settings.log_channel_id,
                    moved |-> closed # tickets]]
            /\ last' = TicketEvent("ticket_close", h, "closed",
                                   <<actor, channel_id, close_reason>>)

\* /ticket close
TicketCloseCommand(h, actor, channel_id, reason) ==
    /\ NewInteraction(h)
    /\ channel_id \in TextChannels
    /\ close_ticket_for_interaction(h, actor, channel_id, reason)
    /\ UNCHANGED <<ticket_settings, ticket_counters, channels, effects, races>>
    /\ UNCHANGED NotTickets

\* TicketCloseReasonModal.on_submit: the modal requires a reason
TicketCloseSubmit(h, reason) ==
    /\ phase = "up"
    /\ interactions[h].op = "modal"
    /\ reason # None
    /\ close_ticket_for_interaction(h, interactions[h].actor,
                                    interactions[h].channel_id, reason)
    /\ UNCHANGED <<ticket_settings, ticket_counters, channels, effects, races>>
    /\ UNCHANGED NotTickets

Bump(channel_id, effect) ==
    [c \in DOMAIN effects \cup {channel_id} |->
        IF c # channel_id THEN effects[c]
        ELSE [EffectsOf(c) EXCEPT ![effect] = @ + 1]]

\* the reply "Ticket will be closed in 3 seconds." is delivered; then the
\* close notice in the channel and the "Ticket Closed" entry of
\* send_ticket_log: an HTTPException of either is swallowed or logged
TicketCloseAnnounce(h) ==
    /\ phase = "up"
    /\ interactions[h].op = "close"
    /\ interactions[h].pc = "notice"
    /\ effects' = [c \in DOMAIN effects \cup {interactions[h].channel_id} |->
            IF c # interactions[h].channel_id THEN effects[c]
            ELSE [EffectsOf(c) EXCEPT
                     !.notice = @ + 1,
                     !.log = IF interactions[h].log_channel_id # NULL
                             THEN @ + 1 ELSE @]]
    /\ interactions' = [interactions EXCEPT ![h].pc = "delete"]
    /\ last' = NoEvent
    /\ UNCHANGED <<ticket_settings, ticket_counters, tickets, channels, races>>
    /\ UNCHANGED NotTickets

\* after asyncio.sleep(3): channel.delete; Forbidden and HTTPException are
\* logged
TicketCloseDelete(h) ==
    /\ phase = "up"
    /\ interactions[h].op = "close"
    /\ interactions[h].pc = "delete"
    /\ \E result \in {"ok", "Forbidden", "HTTPException"} :
        /\ channels' = [channels EXCEPT !.existing =
                IF result = "ok" THEN @ \ {interactions[h].channel_id} ELSE @]
    /\ last' = NoEvent
    /\ effects' = Bump(interactions[h].channel_id, "delete")
    /\ interactions' = [interactions EXCEPT ![h] = Idle]
    /\ UNCHANGED <<ticket_settings, ticket_counters, tickets, races>>
    /\ UNCHANGED NotTickets

TicketInit ==
    /\ ticket_settings = {}
    /\ ticket_counters = {}
    /\ tickets = {}
    /\ channels = [existing |-> {}, created |-> 0]
    /\ interactions = [h \in Interactions |-> Idle]
    /\ effects = [c \in {} |-> NoEffects]
    /\ races = [overlap |-> {}, reconfigured |-> FALSE]

NoResult == [is_done |-> None, calls |-> <<>>]
NoProbe == [fn |-> "none", args |-> <<>>, result |-> NoResult]

SchedulerInit ==
    /\ now = 0
    /\ store = {}
    /\ tasks = [s \in Slots |-> NoTask]
    /\ registry = EmptyDict
    /\ handlers = [h \in Handlers |-> Idle]
    /\ phase = "down"
    /\ commands = 0
    /\ crashes = 0
    /\ last = NoEvent
    /\ sanctions = [key \in Keys |-> FALSE]

Init ==
    /\ SchedulerInit
    /\ probe = NoProbe
    /\ TicketInit

Next ==
    \/ Tick
    \/ Startup
    \/ Crash
    \/ \E h \in Handlers, key \in BanKeys, duration \in Durations, reason \in Reasons :
           Ban(h, key, duration, reason)
    \/ \E h \in Handlers : BanResume(h)
    \/ \E h \in Handlers, key \in MuteKeys, duration \in Durations, reason \in Reasons :
           Mute(h, key, duration, reason)
    \/ \E h \in Handlers : MuteResume(h)
    \/ \E h \in Handlers, key \in Keys : Lift(h, key)
    \/ \E h \in Handlers : LiftResume(h)
    \/ \E slot \in Slots : TaskStart(slot)
    \/ \E slot \in Slots : TaskWake(slot)
    \/ \E slot \in Slots : TaskCallReturn(slot, GuildResults \cup MemberResults)
    \/ \E slot \in Slots : TaskCancelled(slot)
    \/ \E slot \in Slots : TaskDoneCallback(slot)

Spec == Init /\ [][Next]_vars

TypeOK ==
    /\ now \in 0..MaxTime
    /\ phase \in {"down", "up"}
    /\ \A key \in DOMAIN registry : registry[key] \in Slots

\* The scheduler with its scheduling assumptions: the event loop runs every
\* ready task step and callback, the clock advances, the gateway answers the
\* executor with a result that the executor classifies, and the process
\* keeps running once it is up.
ClassifiedResults == (GuildResults \cup MemberResults) \ {"OtherError"}

LiveNext ==
    \/ Tick
    \/ Startup
    \/ \E h \in Handlers, key \in BanKeys, duration \in Durations, reason \in Reasons :
           Ban(h, key, duration, reason)
    \/ \E h \in Handlers : BanResume(h)
    \/ \E h \in Handlers, key \in MuteKeys, duration \in Durations, reason \in Reasons :
           Mute(h, key, duration, reason)
    \/ \E h \in Handlers : MuteResume(h)
    \/ \E h \in Handlers, key \in Keys : Lift(h, key)
    \/ \E h \in Handlers : LiftResume(h)
    \/ \E slot \in Slots : TaskStart(slot)
    \/ \E slot \in Slots : TaskWake(slot)
    \/ \E slot \in Slots : TaskCallReturn(slot, ClassifiedResults)
    \/ \E slot \in Slots : TaskCancelled(slot)
    \/ \E slot \in Slots : TaskDoneCallback(slot)

LiveSpec ==
    /\ Init
    /\ [][LiveNext]_vars
    /\ WF_vars(Tick)
    /\ WF_vars(Startup)
    /\ \A slot \in Slots :
          /\ WF_vars(TaskStart(slot))
          /\ WF_vars(TaskWake(slot))
          /\ WF_vars(TaskCallReturn(slot, ClassifiedResults))
          /\ WF_vars(TaskCancelled(slot))
          /\ WF_vars(TaskDoneCallback(slot))

\* The scheduler when the sanction can never be reversed: the community is
\* never resolvable, so the executor answers Retry at every attempt; sanctions
\* are issued and re-issued, nothing is lifted by hand and the process runs.
UnresolvableResults == {"Forbidden", "HTTPException"}

RetryNext ==
    \/ Tick
    \/ Startup
    \/ \E h \in Handlers, key \in BanKeys, duration \in Durations, reason \in Reasons :
           Ban(h, key, duration, reason)
    \/ \E h \in Handlers : BanResume(h)
    \/ \E h \in Handlers, key \in MuteKeys, duration \in Durations, reason \in Reasons :
           Mute(h, key, duration, reason)
    \/ \E h \in Handlers : MuteResume(h)
    \/ \E slot \in Slots : TaskStart(slot)
    \/ \E slot \in Slots : TaskWake(slot)
    \/ \E slot \in Slots : TaskCallReturn(slot, UnresolvableResults)
    \/ \E slot \in Slots : TaskCancelled(slot)
    \/ \E slot \in Slots : TaskDoneCallback(slot)

RetrySpec ==
    /\ Init
    /\ [][RetryNext]_vars
    /\ WF_vars(Tick)
    /\ WF_vars(Startup)
    /\ \A slot \in Slots :
          /\ WF_vars(TaskStart(slot))
          /\ WF_vars(TaskWake(slot))
          /\ WF_vars(TaskCallReturn(slot, UnresolvableResults))
          /\ WF_vars(TaskCancelled(slot))
          /\ WF_vars(TaskDoneCallback(slot))

\* The scheduler when every sanction has been lifted at the platform out of
\* band: the guild is resolvable and the platform answers not-found to the
\* member fetch (unless the member is cached) and to the sanction call.
OutOfBandNext ==
    \/ Tick
    \/ Startup
    \/ Crash
    \/ \E h \in Handlers, key \in BanKeys, duration \in Durations, reason \in Reasons :
           Ban(h, key, duration, reason)
    \/ \E h \in Handlers : BanResume(h)
    \/ \E h \in Handlers, key \in MuteKeys, duration \in Durations, reason \in Reasons :
           Mute(h, key, duration, reason)
    \/ \E h \in Handlers : MuteResume(h)
    \/ \E h \in Handlers, key \in Keys : Lift(h, key)
    \/ \E h \in Handlers : LiftResume(h)
    \/ \E slot \in Slots : TaskStart(slot)
    \/ \E slot \in Slots : TaskWake(slot)
    \/ \E slot \in Slots :
           TaskCallAnswered(slot,
               IF tasks[slot] = NoTask THEN {}
               ELSE ExecutorOutcomesOf(tasks[slot].key, {"cached", "ok"},
                                       {"cached", "NotFound"}, {"NotFound"}))
    \/ \E slot \in Slots : TaskCancelled(slot)
    \/ \E slot \in Slots : TaskDoneCallback(slot)

OutOfBandSpec == Init /\ [][OutOfBandNext]_vars

\* The ticket workflow: configuration, creation and closing of tickets once
\* the process is up, at one reading of the clock.
TicketNext ==
    \/ Startup
    \/ \E max_open_tickets \in MaxOpenChoices, log_channel \in LogChannelChoices :
           TicketSetup(CategoryId, SupportRoleId, max_open_tickets,
                       DEFAULT_TICKET_PREFIX, log_channel)
    \/ \E h \in Interactions, user \in TicketUsers, subject \in Subjects :
           TicketOpen(h, user, subject)
    \/ \E h \in Interactions : TicketOpenResume(h)
    \/ \E h \in Interactions, actor \in TicketActors,
          channel_id \in FirstChannelId..(FirstChannelId + MaxTickets) \cup {OtherChannel} :
           TicketCloseButton(h, actor, channel_id)
    \/ \E h \in Interactions : TicketModalDismiss(h)
    \/ \E h \in Interactions, reason \in CloseReasons : TicketCloseSubmit(h, reason)
    \/ \E h \in Interactions, actor \in TicketActors,
          channel_id \in FirstChannelId..(FirstChannelId + MaxTickets) \cup {OtherChannel},
          reason \in CloseReasons :
           TicketCloseCommand(h, actor, channel_id, reason)
    \/ \E h \in Interactions : TicketCloseAnnounce(h)
    \/ \E h \in Interactions : TicketCloseDelete(h)

TicketSpec == Init /\ [][TicketNext]_vars

\* The ticket configuration: setup with every choice of its arguments, and
\* the panel command, whose send can overlap with a setup or another panel.
ConfigNext ==
    \/ Startup
    \/ \E category \in {CategoryId, OtherCategoryId},
          support_role \in {SupportRoleId, OtherSupportRoleId},
          max_open_tickets \in MaxOpenChoices, ticket_prefix \in PrefixChoices,
          log_channel \in LogChannelChoices \cup {NULL} :
           TicketSetup(category, support_role, max_open_tickets, ticket_prefix,
                       log_channel)
    \/ \E h \in Interactions, channel \in PanelChannels : TicketPanel(h, channel)
    \/ \E h \in Interactions : TicketPanelResume(h)

ConfigSpec == Init /\ [][ConfigNext]_vars

\* Commands with inputs they refuse, next to commands that are accepted:
\* /ban and /mute with malformed and overlong durations while a temporary
\* ban may be pending, /ticketconfig setup with a prefix that sanitizes to
\* nothing, ticket creation with an overlong subject and /ticket close with
\* an overlong reason, at one reading of the clock.
InputNext ==
    \/ Startup
    \/ \E h \in Handlers, key \in BanKeys, duration \in Durations :
           Ban(h, key, duration, "spam")
    \/ \E h \in Handlers : BanResume(h)
    \/ \E h \in Handlers, key \in BanKeys, duration \in RefusedDurations :
           BanRefused(h, key, duration, "spam")
    \/ \E h \in Handlers, key \in MuteKeys,
          duration \in RefusedDurations \cup OverlongMutes :
           MuteRefused(h, key, duration, "spam")
    \/ \E ticket_prefix \in PrefixChoices :
           TicketSetup(CategoryId, SupportRoleId, 1, ticket_prefix, NULL)
    \/ \E h \in Interactions,
          subject \in {None, LongestSubject, OverlongSubject} :
           TicketOpen(h, 7, subject)
    \/ \E h \in Interactions : TicketOpenResume(h)
    \/ \E h \in Interactions,
          channel_id \in FirstChannelId..(FirstChannelId + MaxTickets),
          reason \in {LongestCloseReason, OverlongCloseReason} :
           TicketCloseCommand(h, 7, channel_id, reason)
    \/ \E h \in Interactions : TicketCloseAnnounce(h)
    \/ \E h \in Interactions : TicketCloseDelete(h)

InputSpec == Init /\ [][InputNext]_vars

\* The scheduler started on a table that holds rows of a kind the program
\* does not write ("warn", left by another version or written by hand) next
\* to rows of a temporary ban; the rows are due at once or one tick later.
ForeignKind == "warn"
ForeignRows ==
    {[action_type |-> kind, guild_id |-> g, user_id |-> u, expires_at |-> expires_at,
      reason |-> unban_reason("spam"), created_at |-> 0] :
        kind \in {ForeignKind, ACTION_BAN}, g \in Guilds, u \in Users,
        expires_at \in {0, TickSeconds}}

ForeignInit ==
    /\ now = 0
    /\ store \in {table \in SUBSET ForeignRows :
                     /\ \E row \in table : row.action_type = ForeignKind
                     /\ \A r1 \in table, r2 \in table :
                           RowKey(r1) = RowKey(r2) => r1 = r2}
    /\ tasks = [s \in Slots |-> NoTask]
    /\ registry = EmptyDict
    /\ handlers = [h \in Handlers |-> Idle]
    /\ phase = "down"
    /\ commands = 0
    /\ crashes = 0
    /\ last = NoEvent
    /\ sanctions = [key \in Keys |-> FALSE]
    /\ probe = NoProbe
    /\ TicketInit

ForeignNext ==
    \/ Tick
    \/ Startup
    \/ Crash
    \/ \E slot \in Slots : TaskStart(slot)
    \/ \E slot \in Slots : TaskWake(slot)
    \/ \E slot \in Slots : TaskCallReturn(slot, GuildResults \cup MemberResults)
    \/ \E slot \in Slots : TaskDoneCallback(slot)

ForeignSpec == ForeignInit /\ [][ForeignNext]_vars

\* The scheduler when the moderation extension can be loaded again at any
\* moment of a running process, so that the restore runs a second time;
\* sanctions are issued and re-issued with one reason and nothing is lifted
\* by hand.
RestoreNext ==
    \/ Tick
    \/ Startup
    \/ Crash
    \/ CogLoad
    \/ \E h \in Handlers, key \in BanKeys, duration \in Durations, reason \in {"spam"} :
           Ban(h, key, duration, reason)
    \/ \E h \in Handlers : BanResume(h)
    \/ \E h \in Handlers, key \in MuteKeys, duration \in Durations, reason \in {"spam"} :
           Mute(h, key, duration, reason)
    \/ \E h \in Handlers : MuteResume(h)
    \/ \E slot \in Slots : TaskStart(slot)
    \/ \E slot \in Slots : TaskWake(slot)
    \/ \E slot \in Slots : TaskCallReturn(slot, GuildResults \cup MemberResults)
    \/ \E slot \in Slots : TaskCancelled(slot)
    \/ \E slot \in Slots : TaskDoneCallback(slot)

RestoreSpec == Init /\ [][RestoreNext]_vars

\* The Reversal Executor on its own: one invocation for a kind, with the
\* results the gateway gives to the calls the executor may make.
ExecutorInputs ==
    {<<kind, guild_result, member_result, api_result>> :
        kind \in {ACTION_BAN, ACTION_MUTE}, guild_result \in GuildResults,
        member_result \in MemberResults, api_result \in ApiResults}

ExecutorInit ==
    /\ SchedulerInit
    /\ TicketInit
    /\ probe \in {[fn |-> "executor", args |-> args, result |-> NoResult] :
                     args \in ExecutorInputs}

\* process_temporary_action's dispatch on the kind and the executor's run
ExecutorRun ==
    /\ probe.fn = "executor"
    /\ probe.result = NoResult
    /\ LET kind == probe.args[1]
           guild_result == probe.args[2]
           member_result == probe.args[3]
           api_result == probe.args[4]
       IN probe' = [probe EXCEPT !.result =
            IF kind = ACTION_BAN
            THEN [is_done |-> perform_automatic_unban(guild_result, api_result),
                  calls |-> perform_automatic_unban_calls(guild_result, api_result)]
            ELSE [is_done |-> perform_automatic_unmute(guild_result, member_result,
                                                       api_result),
                  calls |-> perform_automatic_unmute_calls(guild_result, member_result,
                                                           api_result)]]
    /\ UNCHANGED <<now, store, tasks, registry, handlers, phase, commands, crashes,
                   last, ticket_vars, sanctions>>

ExecutorNext == ExecutorRun

ExecutorSpec == ExecutorInit /\ [][ExecutorNext]_vars

\* parse_duration and format_duration on their own: a raw duration text is
\* parsed, as /ban and /mute do, and the parsed duration is formatted.
\* The fields the raw texts are made of, each with what it denotes
DurationFields ==
    {[text |-> <<"0">>, integer |-> TRUE, value |-> 0],
     [text |-> <<"1">>, integer |-> TRUE, value |-> 1],
     [text |-> <<"2", "3">>, integer |-> TRUE, value |-> 23],
     [text |-> <<"2", "4">>, integer |-> TRUE, value |-> 24],
     [text |-> <<"5", "9">>, integer |-> TRUE, value |-> 59],
     [text |-> <<"6", "0">>, integer |-> TRUE, value |-> 60],
     [text |-> <<"1", "0", "0", "0", "0", "0", "0", "0", "0", "0">>,
      integer |-> TRUE, value |-> 1000000000],
     [text |-> <<"-", "1">>, integer |-> TRUE, value |-> -1],
     [text |-> <<" ", "1">>, integer |-> TRUE, value |-> 1],
     [text |-> <<"x">>, integer |-> FALSE, value |-> 0],
     [text |-> <<>>, integer |-> FALSE, value |-> 0]}

\* fields of the texts that have three or five fields
ShortFields == {f \in DurationFields : f.value = 1 \/ f.text = <<"0">>}

\* sep.join(texts)
RECURSIVE join(_, _)
join(texts, sep) ==
    IF Len(texts) = 0 THEN <<>>
    ELSE IF Len(texts) = 1 THEN texts[1]
    ELSE texts[1] \o <<sep>> \o join(Tail(texts), sep)

DurationInputs ==
    [1..4 -> DurationFields] \cup [1..3 -> ShortFields] \cup [1..5 -> ShortFields]

RawOf(fields) == join([i \in DOMAIN fields |-> fields[i].text], ":")

DurationInit ==
    /\ SchedulerInit
    /\ TicketInit
    /\ probe \in {[fn |-> "parse_duration", args |-> <<RawOf(fields), fields>>,
                   result |-> NoResult] : fields \in DurationInputs}

\* parsed_duration = parse_duration(duration)
DurationParse ==
    /\ probe.fn = "parse_duration"
    /\ probe.result = NoResult
    /\ probe' = [probe EXCEPT !.result =
           [parsed |-> parse_duration(probe.args[1]), formatted |-> FALSE,
            text |-> <<>>]]
    /\ UNCHANGED <<now, store, tasks, registry, handlers, phase, commands, crashes,
                   last, ticket_vars, sanctions>>

\* duration_text = format_duration(parsed_duration), when parsing raised nothing
DurationFormat ==
    /\ probe.fn = "parse_duration"
    /\ probe.result # NoResult
    /\ ~probe.result.formatted
    /\ probe.result.parsed.error = None
    /\ probe' = [probe EXCEPT !.result.formatted = TRUE,
                              !.result.text = format_duration(probe.result.parsed)]
    /\ UNCHANGED <<now, store, tasks, registry, handlers, phase, commands, crashes,
                   last, ticket_vars, sanctions>>

DurationNext == DurationParse \/ DurationFormat

DurationSpec == DurationInit /\ [][DurationNext]_vars

\* sanitize_ticket_prefix on its own, on prefixes as /ticketconfig setup gets
\* them: a run of letters, then up to three more characters.
PrefixLetterRuns == {0, 1, 22, 23}
PrefixTailCharacters == {"b", "B", "7", "-", " ", "!"}
PrefixTails == UNION {[1..n -> PrefixTailCharacters] : n \in 0..3}
PrefixInputs ==
    {[i \in 1..n |-> "a"] \o tail : n \in PrefixLetterRuns, tail \in PrefixTails}

PrefixInit ==
    /\ SchedulerInit
    /\ TicketInit
    /\ probe \in {[fn |-> "sanitize_ticket_prefix", args |-> <<raw_prefix>>,
                   result |-> NoResult] : raw_prefix \in PrefixInputs}

\* normalized_prefix = sanitize_ticket_prefix(ticket_prefix)
PrefixSanitize ==
    /\ probe.fn = "sanitize_ticket_prefix"
    /\ probe.result = NoResult
    /\ probe' = [probe EXCEPT !.result =
                    [normalized_prefix |-> sanitize_ticket_prefix(probe.args[1])]]
    /\ UNCHANGED <<now, store, tasks, registry, handlers, phase, commands, crashes,
                   last, ticket_vars, sanctions>>

PrefixNext == PrefixSanitize

PrefixSpec == PrefixInit /\ [][PrefixNext]_vars

\* ------------------------------------------------------------- properties
RowsIn(table, key) == {row \in table : RowKey(row) = key}
RowsOf(key) == RowsIn(store, key)
HasRow(key) == RowsOf(key) # {}

\* the tasks of a key that are neither finished nor cancelled
LiveTasks(key) ==
    {s \in Slots : /\ tasks[s] # NoTask
                   /\ tasks[s].key = key
                   /\ tasks[s].pc # "done"
                   /\ ~tasks[s].must_cancel}

\* C1: right after a sanction command has saved and scheduled (t2, r2) for a
\* key, the table holds exactly one row for the key, with expires_at = t2 and
\* reason = r2, and exactly one task of the key is neither finished nor
\* cancelled: the registered one, which waits for t2.
C1_ScheduleReplaces ==
    last.op = "schedule" =>
        /\ Cardinality(RowsOf(last.key)) = 1
        /\ \A row \in RowsOf(last.key) :
              row.expires_at = last.arg[1] /\ row.reason = last.arg[2]
        /\ LiveTasks(last.key) = {last.slot}
        /\ DictGet(registry, last.key) = last.slot
        /\ tasks[last.slot].next_attempt = last.arg[1]
        /\ tasks[last.slot].reason = last.arg[2]

\* C1 witness: the second of two sanctions in a row for one key: the task of
\* the first one has not run a step, and had another time and reason
C1_Witness ==
    /\ last.op = "schedule"
    /\ last.replaced # 0
    /\ tasks[last.replaced] # NoTask
    /\ tasks[last.replaced].pc = "start"
    /\ tasks[last.replaced].must_cancel
    /\ tasks[last.replaced].next_attempt # last.arg[1]
    /\ tasks[last.replaced].reason # last.arg[2]

\* C2: in every reachable state each key has at most one task that is neither
\* finished nor cancelled, and that task is the one the registry holds.
C2_AtMostOneLiveTask ==
    \A key \in Keys :
        /\ Cardinality(LiveTasks(key)) <= 1
        /\ \A s \in LiveTasks(key) : DictGet(registry, key) = s

\* C2 witness: a cancelled task of a key still unwinding next to the key's
\* registered live task
C2_Witness ==
    \E key \in Keys, old \in Slots :
        /\ LiveTasks(key) # {}
        /\ tasks[old] # NoTask
        /\ tasks[old].key = key
        /\ tasks[old].must_cancel
        /\ tasks[old].pc \in {"sleep", "call"}

Quiescent == phase = "up" /\ \A h \in Handlers : handlers[h] = Idle

\* C3: whenever no command is in progress and the restore has completed, a
\* row exists for a key if and only if a task is registered for the key.
C3_RowIffRegistered ==
    Quiescent => \A key \in Keys : HasRow(key) <=> key \in DOMAIN registry

\* C4: a key's row disappears from the table only by a Done outcome of its
\* task, by the unrecognized-kind path or by a cancel that deletes the row;
\* a process stop empties the registry and leaves every row in place.
C4_RowNeverLost ==
    [][ /\ \A key \in Keys :
              (HasRow(key) /\ ~HasRow(key)') =>
                  /\ last'.key = key
                  /\ \/ last'.op = "executor" /\ last'.outcome = "True"
                     \/ last'.op = "unknown_kind"
                     \/ last'.op = "cancel"
        /\ last'.op = "crash" => (store' = store /\ registry' = EmptyDict)
      ]_vars

\* C4 witness: the process has stopped while both keys had a row
C4_Witness == last.op = "crash" /\ Cardinality(store) = 2

\* C5: when the executor answers Retry, the task keeps the row, overwrites
\* its expires_at with now + RETRY_DELAY_SECONDS, keeps the reason, stays
\* registered under the key and sleeps until that new time.
C5_RetryReschedules ==
    [][ (last'.op = "executor" /\ last'.outcome = "False") =>
            LET key == last'.key
                slot == last'.slot
            IN /\ Cardinality(RowsIn(store', key)) = 1
               /\ \A row \in RowsIn(store', key) :
                     /\ row.expires_at = now + RETRY_DELAY_SECONDS
                     /\ row.reason = tasks[slot].reason
                     /\ \A old \in RowsOf(key) : row.reason = old.reason
               /\ DictGet(registry, key) = slot
               /\ DictGet(registry', key) = slot
               /\ tasks'[slot].pc = "sleep"
               /\ tasks'[slot].next_attempt = now + RETRY_DELAY_SECONDS
               /\ tasks'[slot].attempts = tasks[slot].attempts
      ]_vars

\* C5 witness: the second Retry in a row of one task
C5_Witness ==
    /\ last.op = "executor"
    /\ last.outcome = "False"
    /\ tasks[last.slot].attempts = 2

\* C6: when the executor answers Done, the task deletes the key's row and
\* finishes; a finished task never calls the executor again; and the done
\* callback of the task removes it from the registry.
C6_DoneDeletesAndUnregisters ==
    [][ /\ (last'.op = "executor" /\ last'.outcome = "True") =>
              /\ RowsIn(store', last'.key) = {}
              /\ tasks'[last'.slot].pc = "done"
              /\ tasks'[last'.slot].result = "returned"
        /\ \A s \in Slots : tasks[s].pc = "done" => tasks'[s] \in {tasks[s], NoTask}
        /\ last'.op = "callback" =>
              /\ tasks'[last'.slot] = NoTask
              /\ DictGet(registry', last'.key) # last'.slot
      ]_vars

\* C6 witness: the done callback of a task that returned after Done has
\* removed the task from the registry
C6_Witness ==
    /\ last.op = "callback"
    /\ last.outcome = "returned"
    /\ last.replaced = last.slot
    /\ last.key \notin DOMAIN registry
    /\ ~HasRow(last.key)

\* C9: the executor is invoked for a task only when the current time is at
\* or after the attempt time the task waits for.
C9_NeverEarly ==
    [][ \A s \in Slots :
            (tasks'[s].pc = "call" /\ tasks[s].pc # "call") =>
                /\ now >= tasks'[s].next_attempt
                /\ tasks[s].pc \in {"start", "sleep"}
                /\ tasks'[s].next_attempt = tasks[s].next_attempt
      ]_vars

\* C9 witness: a retry attempt of a task invoked exactly at its attempt time
C9_Witness ==
    \E s \in Slots :
        /\ tasks[s].pc = "call"
        /\ tasks[s].attempts = 2
        /\ tasks[s].next_attempt = now

\* C10: right after the restore the registry holds exactly one task per row
\* and no other task exists; each task has the expires_at and the reason of
\* its row and has not run yet.
C10_RestoreOneTaskPerRow ==
    last.op = "restore" =>
        /\ DOMAIN registry = {RowKey(row) : row \in store}
        /\ \A row \in store :
              LET task == tasks[registry[RowKey(row)]]
              IN /\ task.pc = "start"
                 /\ ~task.must_cancel
                 /\ task.key = RowKey(row)
                 /\ task.next_attempt = row.expires_at
                 /\ task.reason = row.reason
        /\ {s \in Slots : tasks[s] # NoTask} = {registry[key] : key \in DOMAIN registry}
        /\ Cardinality({s \in Slots : tasks[s] # NoTask}) = Cardinality(store)

\* C10 witness: a restore of two rows, one of them written by a retry
C10_Witness ==
    /\ last.op = "restore"
    /\ Cardinality(store) = 2
    /\ \E row \in store : row.expires_at = row.created_at + RETRY_DELAY_SECONDS

\* C7: under fair scheduling, an advancing clock and an executor that
\* answers Done at some attempt, a key that has a row and a registered task
\* eventually has neither: the row is deleted and the task is unregistered,
\* after any number of Retry outcomes.
C7_EventuallyReversed ==
    \A key \in Keys :
        (HasRow(key) /\ key \in DOMAIN registry)
            ~> (~HasRow(key) /\ key \notin DOMAIN registry)

\* C7 witness: a task has been unregistered after its executor answered Done
\* at the third attempt, two Retry outcomes before it
C7_Witness ==
    /\ last.op = "executor"
    /\ last.outcome = "True"
    /\ tasks[last.slot].attempts = 3
    /\ ~HasRow(last.key)

\* a key whose row is in the table and whose registered task has not finished
Pending(key) ==
    /\ HasRow(key)
    /\ key \in DOMAIN registry
    /\ tasks[registry[key]].pc # "done"

\* C8: when the executor answers Retry at every attempt there is no retry
\* ceiling: a pending key stays pending at every step (the row is never
\* deleted, the registered task never finishes), and its task is always
\* brought to a further executor call.
C8_NoRetryCeiling ==
    /\ [][\A key \in Keys : Pending(key) => Pending(key)']_vars
    /\ \A key \in Keys :
          (Pending(key) /\ tasks[registry[key]].pc # "call")
              ~> (Pending(key) /\ tasks[registry[key]].pc = "call")

\* C8 witness: the third executor call of a task, two Retry outcomes before
\* it, with the row still in the table
C8_Witness ==
    \E key \in Keys :
        /\ Pending(key)
        /\ tasks[registry[key]].pc = "call"
        /\ tasks[registry[key]].attempts = 3

\* C11: a task created by the restore for a row whose expires_at is at or
\* before the current time does not sleep: its first step takes it into the
\* executor call and writes nothing; and when the executor answers Done at
\* that first attempt of a restored task, the row is deleted.
C11_ExpiredRestoreRunsAtOnce ==
    [][ /\ (/\ last'.op = "start"
            /\ tasks[last'.slot].restored
            /\ tasks[last'.slot].next_attempt <= now) =>
               /\ last'.outcome = "call"
               /\ tasks'[last'.slot].pc = "call"
               /\ tasks'[last'.slot].attempts = 1
               /\ store' = store
        /\ (/\ last'.op = "executor"
            /\ last'.outcome = "True"
            /\ tasks[last'.slot].restored
            /\ tasks[last'.slot].attempts = 1) =>
               /\ RowsOf(last'.key) # {}
               /\ RowsIn(store', last'.key) = {}
      ]_vars

\* C11 witness: the first step of a restored task whose row had expired
\* while the process was down has taken it straight into the executor call
C11_Witness ==
    /\ last.op = "start"
    /\ last.outcome = "call"
    /\ tasks[last.slot].restored
    /\ tasks[last.slot].pc = "call"
    /\ tasks[last.slot].attempts = 1
    /\ tasks[last.slot].next_attempt < now
    /\ \E row \in RowsOf(last.key) : row.expires_at < now

\* C12: right after a cancel that deletes the row, the key has no row, no
\* registry entry and no task that is neither finished nor cancelled, at
\* whatever suspension point its task was; a cancelled task takes no step
\* but the one that ends it, which writes nothing to the table and calls no
\* executor; and a key without a row gets a row only by a schedule of the key.
C12_CancelStopsTask ==
    [][ /\ last'.op = "cancel" =>
              /\ RowsIn(store', last'.key) = {}
              /\ last'.key \notin DOMAIN registry'
              /\ \A s \in Slots :
                    (tasks'[s] # NoTask /\ tasks'[s].key = last'.key) =>
                        (tasks'[s].pc = "done" \/ tasks'[s].must_cancel)
        /\ \A s \in Slots :
              (tasks[s] # NoTask /\ tasks[s].must_cancel /\ tasks'[s] # tasks[s]) =>
                  \/ tasks'[s] = NoTask
                  \/ /\ tasks[s].pc # "done"
                     /\ tasks'[s] = [tasks[s] EXCEPT !.pc = "done",
                                                     !.result = "cancelled"]
                     /\ store' = store
        /\ \A key \in Keys :
              (~HasRow(key) /\ RowsIn(store', key) # {}) =>
                  (last'.op = "schedule" /\ last'.key = key)
      ]_vars

\* C12 witness: the cancel of a key whose task had its executor call in
\* flight: the row is gone and the task is cancelled at that call
C12_Witness ==
    /\ last.op = "cancel"
    /\ last.replaced # 0
    /\ tasks[last.replaced] # NoTask
    /\ tasks[last.replaced].key = last.key
    /\ tasks[last.replaced].pc = "call"
    /\ tasks[last.replaced].must_cancel
    /\ ~HasRow(last.key)
    /\ last.key \notin DOMAIN registry

\* the classification policy: what a gateway answer means for the outcome
PolicyOutcome(api_result) ==
    CASE api_result = "ok" -> "True"
      [] api_result = "NotFound" -> "True"
      [] api_result = "Forbidden" -> "False"
      [] api_result = "HTTPException" -> "False"

PolicyResults == {"ok", "NotFound", "Forbidden", "HTTPException"}

\* C13: for both kinds the outcome is the same function of the gateway
\* answers: a guild that is not cached and cannot be fetched gives Retry and
\* no sanction call; otherwise the answer of the deciding call is classified
\* as: no error and not-found give Done, permission denied and any other API
\* failure give Retry. The deciding call is unban for a ban; for a mute it is
\* the member fetch when that fails, and then timeout is not called, else
\* the timeout call.
C13_ClassificationTable ==
    (probe.fn = "executor" /\ probe.result # NoResult) =>
        LET kind == probe.args[1]
            guild_result == probe.args[2]
            member_result == probe.args[3]
            api_result == probe.args[4]
            is_done == probe.result.is_done
            calls == probe.result.calls
            Called(call) == \E i \in 1..Len(calls) : calls[i] = call
        IN /\ guild_result \in {"NotFound", "Forbidden", "HTTPException"} =>
                 /\ is_done = "False"
                 /\ calls = <<"fetch_guild">>
           /\ (guild_result \in {"cached", "ok"} /\ kind = ACTION_BAN
                   /\ api_result \in PolicyResults) =>
                 /\ is_done = PolicyOutcome(api_result)
                 /\ Called("unban")
           /\ (guild_result \in {"cached", "ok"} /\ kind = ACTION_MUTE
                   /\ member_result \in PolicyResults \ {"ok"}) =>
                 /\ is_done = PolicyOutcome(member_result)
                 /\ ~Called("timeout")
           /\ (guild_result \in {"cached", "ok"} /\ kind = ACTION_MUTE
                   /\ member_result \in {"cached", "ok"}
                   /\ api_result \in PolicyResults) =>
                 /\ is_done = PolicyOutcome(api_result)
                 /\ Called("timeout")

\* C13 witness: an automatic unmute whose member fetch answered not-found:
\* the outcome is Done and timeout was not called, whatever it would answer
C13_Witness ==
    /\ probe.fn = "executor"
    /\ probe.args = <<ACTION_MUTE, "ok", "NotFound", "Forbidden">>
    /\ probe.result.is_done = "True"
    /\ probe.result.calls = <<"fetch_guild", "fetch_member">>

\* C14: when the guild is resolvable and the platform answers not-found, every
\* executor call of a task is its first one, made at or after the expiry the
\* row holds; its answer is Done, the row is deleted and the task returns: no
\* task makes a second attempt and no row is rewritten by a retry.
C14_LiftedOutOfBandEndsAtFirstAttempt ==
    [][ /\ last'.op = "executor" =>
              /\ last'.outcome = "True"
              /\ tasks[last'.slot].attempts = 1
              /\ now >= tasks[last'.slot].next_attempt
              /\ \A row \in RowsOf(last'.key) :
                    row.expires_at = tasks[last'.slot].next_attempt
              /\ RowsOf(last'.key) # {}
              /\ RowsIn(store', last'.key) = {}
              /\ tasks'[last'.slot].pc = "done"
              /\ tasks'[last'.slot].result = "returned"
        /\ \A s \in Slots : tasks'[s] # NoTask => tasks'[s].attempts <= 1
        /\ \A row \in store' :
              row \notin store => (last'.op = "schedule" /\ last'.key = RowKey(row))
      ]_vars

\* C14 witness: a task whose sanction was lifted out of band has returned at
\* its first attempt, made after the expiry, and the row is deleted
C14_Witness ==
    /\ last.op = "executor"
    /\ last.outcome = "True"
    /\ tasks[last.slot].attempts = 1
    /\ tasks[last.slot].result = "returned"
    /\ tasks[last.slot].next_attempt < now
    /\ ~HasRow(last.key)

\* ------------------------------------------------------ ticket properties
OpenTickets(table, owner_id) ==
    {row \in table : /\ row.guild_id = TicketGuild
                     /\ row.owner_id = owner_id
                     /\ row.status = ACTION_TICKET_OPEN}

\* the creation requests suspended between next_ticket_number and the insert
PendingOpens == {h \in Interactions : interactions[h].op = "open"}

\* C15: every call of next_ticket_number returns the counter's value before
\* the call plus one and leaves the counter at the returned number, in one
\* step that no other caller's read or write separates: the counter changes
\* in no other way, so N calls by concurrent creation requests return N
\* consecutive numbers, and the numbers held by requests in flight are
\* pairwise distinct and at most the counter.
C15_ConsecutiveNumbers ==
    [][ /\ ticket_counters' # ticket_counters =>
              /\ LastNumber(ticket_counters', TicketGuild)
                     = LastNumber(ticket_counters, TicketGuild) + 1
              /\ Cardinality(ticket_counters') = 1
              /\ \E h \in Interactions :
                    /\ interactions[h] = Idle
                    /\ interactions'[h].op = "open"
                    /\ interactions'[h].ticket_number
                           = LastNumber(ticket_counters, TicketGuild) + 1
                    /\ \A o \in Interactions \ {h} : interactions'[o] = interactions[o]
        /\ \A h \in Interactions :
              (interactions[h] = Idle /\ interactions'[h].op = "open") =>
                  /\ ticket_counters' # ticket_counters
                  /\ interactions'[h].ticket_number
                         = LastNumber(ticket_counters', TicketGuild)
        /\ \A h \in PendingOpens, o \in PendingOpens :
              /\ interactions[h].ticket_number
                     \in 1..LastNumber(ticket_counters, TicketGuild)
              /\ h # o => interactions[h].ticket_number # interactions[o].ticket_number
      ]_vars

\* C15 witness: two creation requests in flight at the same time hold the
\* numbers 1 and 2 of a counter that had no row, and the counter is at 2
C15_Witness ==
    /\ Cardinality(PendingOpens) = 2
    /\ {interactions[h].ticket_number : h \in PendingOpens} = {1, 2}
    /\ LastNumber(ticket_counters, TicketGuild) = 2
    /\ tickets = {}

\* C16: no two rows of the tickets table of one guild have the same
\* ticket_number, and every row's ticket_number is between 1 and the
\* last_number of the guild's counter row.
C16_NumbersUniqueAndIssued ==
    /\ \A r1 \in tickets, r2 \in tickets :
          (r1 # r2 /\ r1.guild_id = r2.guild_id) => r1.ticket_number # r2.ticket_number
    /\ \A row \in tickets :
          /\ row.ticket_number >= 1
          /\ row.ticket_number <= LastNumber(ticket_counters, row.guild_id)

\* C16 witness: two tickets of the guild, the second one created first
C16_Witness ==
    /\ Cardinality(tickets) = 2
    /\ \E r1 \in tickets, r2 \in tickets :
          /\ r1.ticket_number = 1
          /\ r2.ticket_number = 2
          /\ r2.channel_id < r1.channel_id

ClosedBy(row, closed_by, close_reason, timestamp) ==
    [row EXCEPT !.status = ACTION_TICKET_CLOSED, !.closed_at = timestamp,
                !.closed_by = closed_by, !.closed_reason = close_reason]

\* C17: a close request that is accepted moves exactly the open row of its
\* channel to closed and writes its own actor, reason and time into it; a
\* rejected close request writes nothing; a row becomes closed only by an
\* accepted close request, and a closed row is never written again: of two
\* concurrent close requests for one channel exactly one moves the row.
C17_ExactlyOneClose ==
    [][ /\ (last'.op = "ticket_close" /\ last'.outcome = "closed") =>
              \E row \in tickets :
                  /\ row.channel_id = last'.arg[2]
                  /\ row.status = ACTION_TICKET_OPEN
                  /\ tickets' = (tickets \ {row})
                         \cup {ClosedBy(row, last'.arg[1], last'.arg[3], now)}
        /\ (last'.op = "ticket_close" /\ last'.outcome # "closed") =>
              tickets' = tickets
        /\ \A row \in tickets' :
              (row.status = ACTION_TICKET_CLOSED /\ row \notin tickets) =>
                  (last'.op = "ticket_close" /\ last'.outcome = "closed")
        /\ \A row \in tickets :
              row.status = ACTION_TICKET_CLOSED => row \in tickets'
      ]_vars

\* C17 witness: the second of two concurrent close requests for one channel,
\* by another member and with another reason than the first, is rejected
\* while the first one is still in flight; the row has the first one's fields
C17_Witness ==
    /\ last.op = "ticket_close"
    /\ last.outcome = "not_open"
    /\ \E h \in Interactions, row \in tickets :
          /\ interactions[h].op = "close"
          /\ interactions[h].channel_id = last.arg[2]
          /\ interactions[h].actor # last.arg[1]
          /\ row.channel_id = last.arg[2]
          /\ row.status = ACTION_TICKET_CLOSED
          /\ row.closed_by = interactions[h].actor
          /\ row.closed_reason # last.arg[3]

\* C18: a close request that is rejected performs no close side effect and
\* ends; every request that goes on to the side effects has itself moved
\* the row to closed; and no channel gets more than one close notice, one
\* log entry or one deletion.
C18_SideEffectsOnce ==
    [][ /\ (last'.op = "ticket_close" /\ last'.outcome # "closed") =>
              /\ effects' = effects
              /\ channels' = channels
              /\ interactions'[last'.slot] = Idle
        /\ \A h \in Interactions :
              interactions'[h].op = "close" => interactions'[h].moved
        /\ \A c \in DOMAIN effects' :
              /\ effects'[c].notice <= 1
              /\ effects'[c].log <= 1
              /\ effects'[c].delete <= 1
              /\ \E row \in tickets' :
                    row.channel_id = c /\ row.status = ACTION_TICKET_CLOSED
      ]_vars

\* C18 witness: a close request is rejected for a channel whose ticket
\* another request has closed and announced, before the channel is deleted
C18_Witness ==
    /\ last.op = "ticket_close"
    /\ last.outcome = "not_open"
    /\ last.arg[2] \in channels.existing
    /\ EffectsOf(last.arg[2]) = [notice |-> 1, log |-> 1, delete |-> 0]
    /\ \E h \in Interactions :
          /\ interactions[h].op = "close"
          /\ interactions[h].pc = "delete"
          /\ interactions[h].channel_id = last.arg[2]

MaxOpenTickets == get_ticket_settings(ticket_settings, TicketGuild).max_open_tickets

\* C19: a creation request of a user who has max_open_tickets or more open
\* tickets is rejected, and the rejection changes nothing: no ticket row, no
\* counter increment, no channel and no suspended handler; a request that
\* goes on to next_ticket_number is one of a user below the quota.
C19_QuotaRejects ==
    [][ /\ (/\ last'.op = "ticket_open"
            /\ ticket_settings # {}
            /\ Cardinality(OpenTickets(tickets, last'.arg[1])) >= MaxOpenTickets) =>
               /\ last'.outcome = "quota"
               /\ UNCHANGED ticket_vars
        /\ last'.op = "ticket_open" =>
              (last'.outcome = "quota" <=>
                  /\ ticket_settings # {}
                  /\ Cardinality(OpenTickets(tickets, last'.arg[1])) >= MaxOpenTickets)
        /\ (ticket_counters' # ticket_counters \/ interactions' # interactions) =>
              ~(last'.op = "ticket_open" /\ last'.outcome = "quota")
      ]_vars

\* C19 witness: a user with two open tickets and a quota of two is rejected
C19_Witness ==
    /\ last.op = "ticket_open"
    /\ last.outcome = "quota"
    /\ MaxOpenTickets = 2
    /\ Cardinality(OpenTickets(tickets, last.arg[1])) = 2
    /\ LastNumber(ticket_counters, TicketGuild) = 2
    /\ \A h \in Interactions : interactions[h] = Idle

\* C20: the insert that follows a successful channel creation does not look
\* at the quota again: it adds an open ticket of the requester whatever the
\* requester's count is by then; and a user's open tickets exceed
\* max_open_tickets only if two creation requests of the user overlapped or
\* the configuration was changed.
C20_QuotaRace ==
    [][ /\ (last'.op = "ticket_created" /\ last'.outcome = "ok") =>
              /\ Cardinality(OpenTickets(tickets', last'.arg[1]))
                     = Cardinality(OpenTickets(tickets, last'.arg[1])) + 1
              /\ \E row \in tickets' \ tickets :
                    /\ row.owner_id = last'.arg[1]
                    /\ row.ticket_number = last'.arg[2]
                    /\ row.channel_id = last'.arg[3]
                    /\ row.status = ACTION_TICKET_OPEN
        /\ \A user \in TicketUsers :
              (/\ ticket_settings' # {}
               /\ Cardinality(OpenTickets(tickets', user))
                      > get_ticket_settings(ticket_settings', TicketGuild).max_open_tickets) =>
                  (user \in races'.overlap \/ races'.reconfigured)
      ]_vars

\* C20 witness: with a quota of one that was never changed, two overlapping
\* creation requests of one user have both created an open ticket
C20_Witness ==
    /\ last.op = "ticket_created"
    /\ last.outcome = "ok"
    /\ ~races.reconfigured
    /\ MaxOpenTickets = 1
    /\ Cardinality(OpenTickets(tickets, last.arg[1])) = 2
    /\ last.arg[1] \in races.overlap

\* C21: the last_number of the guild's counter never decreases, whatever step
\* is taken (creation, close, configuration), and the number a creation
\* request gets from next_ticket_number is the counter's value plus one,
\* which no ticket row, open or closed, and no request in flight holds: after
\* a ticket was closed the next ticket gets last_number + 1.
C21_CounterNeverReuses ==
    [][ /\ LastNumber(ticket_counters', TicketGuild)
               >= LastNumber(ticket_counters, TicketGuild)
        /\ \A h \in Interactions :
              (interactions[h] = Idle /\ interactions'[h].op = "open") =>
                  /\ interactions'[h].ticket_number
                         = LastNumber(ticket_counters, TicketGuild) + 1
                  /\ \A row \in tickets :
                        row.ticket_number # interactions'[h].ticket_number
                  /\ \A o \in PendingOpens :
                        interactions[o].ticket_number # interactions'[h].ticket_number
      ]_vars

\* C21 witness: ticket 1 is closed, no ticket is open, and a creation request
\* has just been given number 2
C21_Witness ==
    /\ last.op = "ticket_open"
    /\ last.outcome = "pending"
    /\ last.arg[2] = 2
    /\ \E row \in tickets : /\ row.ticket_number = 1
                            /\ row.status = ACTION_TICKET_CLOSED
    /\ \A row \in tickets : row.status = ACTION_TICKET_CLOSED
    /\ LastNumber(ticket_counters, TicketGuild) = 2

\* C22: every failure of an executor call of a reversal task, an exception
\* the executor does not classify included, is followed by a retry: the task
\* is still running, its next attempt is RETRY_DELAY_SECONDS after the
\* failure and its row is saved with that time; no failure ends the task
\* while its row is persisted, and no failure touches another key's task or
\* stops the process.
C22_EveryFailureRetried ==
    [][ (last'.op = "executor" /\ last'.outcome # "True") =>
            /\ tasks'[last'.slot] # NoTask
            /\ tasks'[last'.slot].pc \in {"sleep", "call"}
            /\ tasks'[last'.slot].next_attempt = now + RETRY_DELAY_SECONDS
            /\ \E row \in RowsIn(store', last'.key) :
                  row.expires_at = now + RETRY_DELAY_SECONDS
            /\ \A slot \in Slots \ {last'.slot} : tasks'[slot] = tasks[slot]
            /\ phase' = phase
      ]_vars

\* C23: when a ticket creation is rejected because the platform answers
\* permission-denied (Forbidden) to create_text_channel, the request has
\* left nothing in the store: no ticket row carries the number it was given,
\* and the guild's counter does not hold its increment, that is last_number
\* is below the number the request drew.
C23_AuthRejectionWritesNothing ==
    (last.op = "ticket_created" /\ last.outcome = "Forbidden") =>
        /\ \A row \in tickets : row.ticket_number # last.arg[2]
        /\ LastNumber(ticket_counters, TicketGuild) < last.arg[2]

\* ---------------------------------------------------- duration properties
\* the fields are non-negative integers in their decimal writing, with
\* h <= 23, m <= 59, s <= 59 and d + h + m + s > 0
InDurationDomain(fields) ==
    /\ Len(fields) = 4
    /\ \A i \in 1..4 : /\ fields[i].integer
                       /\ fields[i].value >= 0
                       /\ fields[i].text = str(fields[i].value)
    /\ fields[2].value <= 23
    /\ fields[3].value <= 59
    /\ fields[4].value <= 59
    /\ \E i \in 1..4 : fields[i].value > 0

\* "{d}d {h}h {m}m {s}s"
Rendering(fields) ==
    fields[1].text \o <<"d", " ">> \o fields[2].text \o <<"h", " ">>
        \o fields[3].text \o <<"m", " ">> \o fields[4].text \o <<"s">>

\* C25: for non-negative integers d, h, m, s with h <= 23, m <= 59, s <= 59
\* and d + h + m + s > 0, parse_duration("d:h:m:s") returns a duration of
\* 86400*d + 3600*h + 60*m + s seconds, and format_duration of it is
\* "{d}d {h}h {m}m {s}s" with the same d, h, m, s.
C25_DurationRoundTrip ==
    (/\ probe.fn = "parse_duration"
     /\ probe.result # NoResult
     /\ InDurationDomain(probe.args[2])) =>
        /\ probe.result.parsed.error = None
        /\ probe.result.parsed.total_seconds
               = 86400 * probe.args[2][1].value + 3600 * probe.args[2][2].value
                   + 60 * probe.args[2][3].value + probe.args[2][4].value
        /\ probe.result.formatted => probe.result.text = Rendering(probe.args[2])

\* what the claim calls an input that must be refused
RefusedDuration(fields) ==
    \/ Len(fields) # 4
    \/ \E i \in DOMAIN fields : ~fields[i].integer
    \/ \E i \in DOMAIN fields : fields[i].value < 0
    \/ Len(fields) = 4 /\ (\/ fields[2].value > 23
                           \/ fields[3].value > 59
                           \/ fields[4].value > 59)
    \/ \A i \in DOMAIN fields : fields[i].value = 0

\* C26: parse_duration returns an error and no duration for every input
\* that has not exactly four colon-separated fields, has a non-integer or
\* negative field, has hours > 23, minutes > 59 or seconds > 59, or has a
\* total of zero seconds, and it returns a duration for every other input.
C26_ParseDurationErrors ==
    (probe.fn = "parse_duration" /\ probe.result # NoResult) =>
        IF RefusedDuration(probe.args[2])
        THEN /\ probe.result.parsed.error # None
             /\ probe.result.parsed.exception = "ValueError"
             /\ ~probe.result.formatted
        ELSE probe.result.parsed.error = None

\* C28: sanitize_ticket_prefix returns either no value or a non-empty text
\* of at most 24 characters that has only a-z, 0-9 and hyphen, no two
\* consecutive hyphens, and no hyphen at its start or its end.
C28_PrefixWellFormed ==
    (probe.fn = "sanitize_ticket_prefix" /\ probe.result # NoResult) =>
        LET prefix == probe.result.normalized_prefix
        IN \/ prefix = NoPrefix
           \/ /\ Len(prefix) >= 1
              /\ Len(prefix) <= 24
              /\ \A i \in DOMAIN prefix : prefix[i] \in PrefixCharacters
              /\ \A i \in 1..(Len(prefix) - 1) :
                    ~(prefix[i] = "-" /\ prefix[i + 1] = "-")
              /\ prefix[1] # "-"
              /\ prefix[Len(prefix)] # "-"

\* ----------------------------------------------- configuration properties
SettingsRows(table) == {row \in table : row.guild_id = TicketGuild}

\* C27: the guild has at most one ticket_settings row; a setup that is saved
\* leaves the row with the category, support role, quota, prefix and log
\* channel it was given and with the panel_channel_id the row had before
\* (none on a first setup); a delivered panel command sets panel_channel_id
\* and changes no other field; and no other step changes the row.
C27_SetupKeepsPanelChannel ==
    [][ LET before == get_ticket_settings(ticket_settings, TicketGuild)
            after == get_ticket_settings(ticket_settings', TicketGuild)
        IN /\ Cardinality(SettingsRows(ticket_settings')) <= 1
           /\ (last'.op = "ticket_setup" /\ last'.outcome = "saved") =>
                 /\ after # NoSettings
                 /\ after.category_id = last'.arg[1]
                 /\ after.support_role_id = last'.arg[2]
                 /\ after.max_open_tickets = last'.arg[3]
                 /\ after.ticket_name_prefix = last'.arg[4]
                 /\ after.log_channel_id = last'.arg[5]
                 /\ after.panel_channel_id = IF before = NoSettings THEN NULL
                                             ELSE before.panel_channel_id
           /\ (last'.op = "ticket_panel" /\ last'.outcome = "sent") =>
                 /\ before # NoSettings
                 /\ after = [before EXCEPT !.panel_channel_id = last'.arg[1]]
           /\ ~(last'.op = "ticket_setup" /\ last'.outcome = "saved")
                 /\ ~(last'.op = "ticket_panel" /\ last'.outcome = "sent")
                 => after = before
      ]_vars

\* C27 witness: a setup has just replaced category, support role, quota,
\* prefix and log channel of a row whose panel channel was set before, while
\* another panel command is waiting for its send
C27_Witness ==
    /\ last.op = "ticket_setup"
    /\ last.outcome = "saved"
    /\ last.arg[1] = OtherCategoryId
    /\ last.arg[2] = OtherSupportRoleId
    /\ last.arg[4] # DEFAULT_TICKET_PREFIX
    /\ get_ticket_settings(ticket_settings, TicketGuild).panel_channel_id = LogChannelId
    /\ \E h \in Interactions : /\ interactions[h].op = "panel"
                               /\ interactions[h].channel_id = OtherChannel

\* ------------------------------------------------------- input properties
\* the steps in which a command refuses its input
InputRefused(event) ==
    \/ event.op \in {"ban", "mute"}
    \/ event.op = "ticket_setup" /\ event.outcome = "invalid_prefix"
    \/ event.op = "ticket_open" /\ event.outcome = "subject_too_long"
    \/ event.op = "ticket_close" /\ event.outcome = "reason_too_long"

\* C24: a command that refuses its input (a duration parse_duration raises
\* on, a mute above 28 days, a subject above 200 characters, a close reason
\* above 300 characters, a prefix that sanitizes to nothing) writes nothing:
\* the temporary_actions rows, the tasks and the registry, the ticket
\* settings, counters and rows stay as they were, no platform call is
\* started and no channel is touched; and no such input ever gets into the
\* store: no ticket row has a subject above 200 or a close reason above 300
\* characters, and no settings row is without a prefix.
C24_InputErrorWritesNothing ==
    [][ /\ InputRefused(last') =>
              /\ store' = store
              /\ tasks' = tasks
              /\ registry' = registry
              /\ handlers' = handlers
              /\ ticket_settings' = ticket_settings
              /\ ticket_counters' = ticket_counters
              /\ tickets' = tickets
              /\ channels' = channels
              /\ effects' = effects
              /\ \A h \in Interactions : interactions'[h] \in {interactions[h], Idle}
        /\ \A row \in tickets' :
              /\ Len(row.subject) <= MAX_TICKET_SUBJECT_LENGTH
              /\ Len(row.closed_reason) <= MAX_TICKET_CLOSE_REASON_LENGTH
        /\ \A row \in ticket_settings' :
              /\ row.ticket_name_prefix # NoPrefix
              /\ row.ticket_name_prefix # <<>>
      ]_vars

\* C24 witness: /ticket close with a reason of 301 characters has just been
\* refused in the channel of an open ticket, whose subject has 200
\* characters, while a temporary ban is pending
C24_Witness ==
    /\ last.op = "ticket_close"
    /\ last.outcome = "reason_too_long"
    /\ Len(last.arg[3]) = MAX_TICKET_CLOSE_REASON_LENGTH + 1
    /\ \E row \in tickets : /\ row.channel_id = last.arg[2]
                            /\ row.status = ACTION_TICKET_OPEN
                            /\ Len(row.subject) = MAX_TICKET_SUBJECT_LENGTH
    /\ store # {}
    /\ DOMAIN registry # {}

UnknownKind(key) == key[1] \notin {ACTION_BAN, ACTION_MUTE}

\* C30: a task whose key has a kind other than ban and mute never calls the
\* executor and never makes an attempt; when its sleep is over (or at once,
\* if the row is due) it deletes the row and returns, and its done callback
\* unregisters it; its row is never written again, so there is no retry.
C30_UnknownKindDropped ==
    [][ /\ \A slot \in Slots :
              (tasks'[slot] # NoTask /\ UnknownKind(tasks'[slot].key)) =>
                  /\ tasks'[slot].pc \in {"start", "sleep", "done"}
                  /\ tasks'[slot].attempts = 0
        /\ last'.op = "executor" => ~UnknownKind(last'.key)
        /\ \A slot \in Slots :
              (/\ tasks[slot] # NoTask
               /\ UnknownKind(tasks[slot].key)
               /\ tasks'[slot] # NoTask
               /\ tasks[slot].pc # "done"
               /\ tasks'[slot].pc = "done") =>
                  /\ last'.op = "unknown_kind"
                  /\ last'.key = tasks[slot].key
                  /\ tasks'[slot].result = "returned"
                  /\ now >= tasks[slot].next_attempt
                  /\ RowsIn(store', tasks[slot].key) = {}
                  /\ store' = store \ RowsIn(store, tasks[slot].key)
        /\ (last'.op = "callback" /\ UnknownKind(last'.key)) =>
              /\ last'.key \notin DOMAIN registry'
              /\ tasks'[last'.slot] = NoTask
              /\ RowsIn(store', last'.key) = {}
        /\ \A row \in store' : UnknownKind(RowKey(row)) => row \in store
      ]_vars

\* C30 witness: the task of a "warn" row that was not due at the restore has
\* slept, deleted its row and returned, and its done callback has just
\* unregistered it, while the ban row of the same user is still pending
C30_Witness ==
    /\ last.op = "callback"
    /\ UnknownKind(last.key)
    /\ last.outcome = "returned"
    /\ now >= TickSeconds
    /\ last.key \notin DOMAIN registry
    /\ RowsIn(store, last.key) = {}
    /\ \E row \in store : row.action_type = ACTION_BAN

\* ------------------------------------------------------ restore properties
LiveTasksIn(tks, key) ==
    {s \in Slots : /\ tks[s] # NoTask
                   /\ tks[s].key = key
                   /\ tks[s].pc # "done"
                   /\ ~tks[s].must_cancel}

\* C31: a restore, the first one of a process or a later one, leaves the
\* table as it is (the same rows with the same expires_at, reason and
\* created_at), and right after it every row has exactly one task that is
\* neither finished nor cancelled: the registered one, which has not run yet
\* and carries the row's expires_at and reason.
C31_RestoreWritesNothing ==
    [][ last'.op \in {"restore", "reload"} =>
          /\ store' = store
          /\ \A row \in store' :
                /\ RowKey(row) \in DOMAIN registry'
                /\ LiveTasksIn(tasks', RowKey(row)) = {registry'[RowKey(row)]}
                /\ LET task == tasks'[registry'[RowKey(row)]]
                   IN /\ task.pc = "start"
                      /\ task.next_attempt = row.expires_at
                      /\ task.reason = row.reason
      ]_vars

\* C31 witness: the restore has run a second time in a running process, on a
\* row a retry has rewritten; the task the first restore or the command
\* created is cancelled and not yet unwound, and a new one is registered
C31_Witness ==
    /\ last.op = "reload"
    /\ \E row \in store :
          /\ row.created_at > 0
          /\ row.expires_at = row.created_at + RETRY_DELAY_SECONDS
          /\ \E s \in Slots :
                /\ tasks[s] # NoTask
                /\ tasks[s].key = RowKey(row)
                /\ tasks[s].must_cancel
                /\ s # registry[RowKey(row)]

\* ------------------------------------------------------- cancel properties
\* C32: cancel_temporary_action returns at once and is a no-op where there
\* is nothing to cancel. When /unban or /unmute calls it for a key that has
\* no registered task, or whose registered task has finished, no task
\* changes; when the key has no row the table is unchanged; a task it does
\* cancel is only marked and has not unwound when the call returns; and in
\* every state a second call with the same arguments changes nothing more.
C32_CancelNoOp ==
    [][ /\ \A key \in Keys, delete_from_db \in BOOLEAN :
              LET once == cancel_temporary_action(Sched, key, delete_from_db)
              IN cancel_temporary_action(once, key, delete_from_db) = once
        /\ last'.op = "cancel" =>
              /\ \E h \in Handlers :
                    /\ handlers[h] # Idle
                    /\ handlers' = [handlers EXCEPT ![h] = Idle]
              /\ last'.key \notin DOMAIN registry'
              /\ (last'.replaced = 0 \/ TaskDone(tasks[last'.replaced])) =>
                    tasks' = tasks
              /\ ~HasRow(last'.key) => store' = store
              /\ (last'.replaced # 0 /\ ~TaskDone(tasks[last'.replaced])) =>
                    tasks' = [tasks EXCEPT ![last'.replaced].must_cancel = TRUE]
      ]_vars

\* C32 witness: /unban has called cancel for a key that has no registered
\* task and no row, while the mute of the same user is pending with its row
\* and its task
C32_Witness ==
    /\ last.op = "cancel"
    /\ last.replaced = 0
    /\ last.key[1] = ACTION_BAN
    /\ \E row \in store : row.action_type = ACTION_MUTE
    /\ \E key \in DOMAIN registry : key[1] = ACTION_MUTE /\ LiveTasks(key) # {}

\* ------------------------------------------------ ticket record properties
\* the ids of the channels the platform has made for tickets so far
ProvisionedChannels(made) == (FirstChannelId + 1)..(FirstChannelId + made.created)

\* C33: a row of the tickets table is inserted only by the step in which
\* create_text_channel has succeeded, with status open and with the id of
\* the channel that step has made; a Forbidden or HTTPException answer makes
\* no channel and inserts no row; and in every state the rows and the
\* channels made for tickets correspond one to one.
C33_RecordOnlyAfterChannel ==
    [][ /\ \A row \in {r \in tickets' : \A old \in tickets : old.channel_id # r.channel_id} :
              /\ last'.op = "ticket_created"
              /\ last'.outcome = "ok"
              /\ row.status = ACTION_TICKET_OPEN
              /\ row.channel_id = last'.arg[3]
              /\ row.ticket_number = last'.arg[2]
              /\ row.owner_id = last'.arg[1]
              /\ row.channel_id \in channels'.existing \ channels.existing
              /\ row.channel_id \in
                    ProvisionedChannels(channels') \ ProvisionedChannels(channels)
        /\ (last'.op = "ticket_created" /\ last'.outcome \in {"Forbidden", "HTTPException"}) =>
              /\ tickets' = tickets
              /\ channels' = channels
              /\ \A row \in tickets' : row.ticket_number # last'.arg[2]
        /\ (last'.op = "ticket_created" /\ last'.outcome = "ok") =>
              Cardinality({row \in tickets' : row.channel_id = last'.arg[3]}) = 1
        /\ {row.channel_id : row \in tickets'} = ProvisionedChannels(channels')
        /\ Cardinality(tickets') = channels'.created
      ]_vars

\* C33 witness: the second creation request of a guild was refused by the
\* platform; the counter has issued two numbers and the one row of the table
\* is the first ticket with its own channel
C33_Witness ==
    /\ last.op = "ticket_created"
    /\ last.outcome = "Forbidden"
    /\ last.arg[2] = 2
    /\ Cardinality(tickets) = 1
    /\ \A row \in tickets : row.ticket_number = 1 /\ row.channel_id = FirstChannelId + 1

\* the number of channel.delete calls made for the channel so far
DeleteCalls(done, channel_id) ==
    IF channel_id \in DOMAIN done THEN done[channel_id].delete ELSE 0

\* C34: every step keeps every row of the tickets table: a closed row is
\* unchanged, an open row is unchanged or becomes closed with its channel,
\* number, owner, subject and creation time kept; and the step that calls
\* channel.delete, whether the platform deletes the channel or refuses,
\* leaves the table as it is, with the closed row of that channel in it.
C34_RecordsKept ==
    [][ /\ \A old \in tickets :
              \E new \in tickets' :
                 /\ new.channel_id = old.channel_id
                 /\ new.guild_id = old.guild_id
                 /\ new.ticket_number = old.ticket_number
                 /\ new.owner_id = old.owner_id
                 /\ new.subject = old.subject
                 /\ new.created_at = old.created_at
                 /\ old.status = ACTION_TICKET_CLOSED => new = old
                 /\ old.status = ACTION_TICKET_OPEN =>
                       new = old \/ new.status = ACTION_TICKET_CLOSED
        /\ Cardinality(tickets') >= Cardinality(tickets)
        /\ \A channel_id \in DOMAIN effects' :
              DeleteCalls(effects', channel_id) > DeleteCalls(effects, channel_id) =>
                 /\ tickets' = tickets
                 /\ \E row \in tickets' :
                       /\ row.channel_id = channel_id
                       /\ row.status = ACTION_TICKET_CLOSED
      ]_vars

\* C34 witness: two tickets are closed; the channel of one has been deleted,
\* the deletion of the other was refused and its channel still exists; both
\* rows are in the table
C34_Witness ==
    /\ Cardinality(tickets) = 2
    /\ \A row \in tickets :
          /\ row.status = ACTION_TICKET_CLOSED
          /\ DeleteCalls(effects, row.channel_id) = 1
    /\ \E row \in tickets : row.channel_id \in channels.existing
    /\ \E row \in tickets : row.channel_id \notin channels.existing
    /\ interactions = [h \in Interactions |-> Idle]

\* ------------------------------------------------ task and row properties
\* C35: in every state, a registered task that is neither finished nor
\* cancelled has exactly one row for its key, and the time the task waits
\* for and the reason it carries are the expires_at and the reason of that
\* row; so a restore at any moment creates a task for the same attempt time.
C35_TaskMatchesRow ==
    \A key \in DOMAIN registry :
        LET task == tasks[registry[key]]
        IN (task # NoTask /\ ~TaskDone(task) /\ ~task.must_cancel) =>
              /\ task.key = key
              /\ Cardinality(RowsOf(key)) = 1
              /\ \A row \in RowsOf(key) :
                    /\ row.expires_at = task.next_attempt
                    /\ row.reason = task.reason

\* C35 witness: after a stop and restart, the task the restore created for a
\* row that a retry had rewritten sleeps until the row's expires_at
C35_Witness ==
    /\ crashes = 1
    /\ phase = "up"
    /\ \E key \in DOMAIN registry :
          /\ tasks[registry[key]] # NoTask
          /\ tasks[registry[key]].restored
          /\ tasks[registry[key]].pc = "sleep"
          /\ ~tasks[registry[key]].must_cancel
          /\ \E row \in RowsOf(key) :
                /\ row.created_at > 0
                /\ row.expires_at = row.created_at + RETRY_DELAY_SECONDS
                /\ row.expires_at = tasks[registry[key]].next_attempt

\* C36: the done callback of a task removes the registry entry of the
\* task's key only if that entry is the finished task itself; when a later
\* schedule has registered a newer task for the key, or the entry is gone,
\* the callback leaves the registry as it is, and it never touches the entry
\* of another key or any other task.
C36_CallbackSparesNewerTask ==
    [][ last'.op = "callback" =>
          /\ last'.replaced = DictGet(registry, last'.key)
          /\ IF DictGet(registry, last'.key) = last'.slot
             THEN registry' = DictPop(registry, last'.key)
             ELSE registry' = registry
          /\ \A key \in DOMAIN registry :
                registry[key] # last'.slot =>
                   /\ key \in DOMAIN registry'
                   /\ registry'[key] = registry[key]
                   /\ tasks'[registry[key]] = tasks[registry[key]]
      ]_vars

\* C36 witness: the callback of a superseded, cancelled task has run while
\* the registry holds the newer task of the same key, which is still there
\* and has not finished
C36_Witness ==
    /\ last.op = "callback"
    /\ last.outcome = "cancelled"
    /\ last.replaced # 0
    /\ last.replaced # last.slot
    /\ last.key \in DOMAIN registry
    /\ registry[last.key] = last.replaced
    /\ tasks[last.replaced] # NoTask
    /\ tasks[last.replaced].key = last.key
    /\ ~TaskDone(tasks[last.replaced])

\* --------------------------------------------------- platform properties
\* a command of the key that is suspended after the platform has applied
\* its sanction, whose expiry has not come: the expiry of a ban is counted
\* from the handler's resumption, the one of a mute is handlers[h].expires_at
NewestApplied(key) ==
    {h \in Handlers :
        /\ handlers[h] # Idle
        /\ handlers[h].op \in {"ban", "mute"}
        /\ handlers[h].key = key
        /\ handlers[h].applied
        /\ handlers[h].op = "mute" => now < handlers[h].expires_at}

\* C37: a step of a reversal task that lifts the sanction of its key at the
\* platform is taken neither before the expires_at of the key's row nor
\* while a command that has applied the sanction anew is suspended before
\* its save and schedule.
C37_OlderTaskSparesNewSanction ==
    [][ \A key \in Keys :
          (last'.op = "executor" /\ last'.key = key
              /\ last'.arg = <<"lifted">> /\ sanctions[key]) =>
             /\ \A row \in RowsOf(key) : now >= row.expires_at
             /\ NewestApplied(key) = {}
      ]_vars

\* the commands of the key that are suspended on their platform call
InFlight(key) == {h \in Handlers : handlers[h] # Idle /\ handlers[h].key = key}

\* C38: in every state in which no command of the key is in flight, a
\* sanction that is in force at the platform has a row in the table.
C38_SanctionHasRow ==
    \A key \in Keys : (sanctions[key] /\ InFlight(key) = {}) => HasRow(key)

\* --------------------------------------------------------- row properties
\* C39: the step in which a task handles a Retry keeps the row of its key
\* but for expires_at: the row is there before and after, with the same key,
\* the same reason and the same created_at, and no other row changes.
C39_RetryChangesOnlyExpiry ==
    [][ (last'.op = "executor" /\ last'.outcome = "False") =>
          /\ Cardinality(RowsIn(store', last'.key)) = 1
          /\ \A old \in RowsOf(last'.key), new \in RowsIn(store', last'.key) :
                /\ new.reason = old.reason
                /\ new.created_at = old.created_at
          /\ \A key \in Keys \ {last'.key} : RowsIn(store', key) = RowsOf(key)
      ]_vars

\* the row, the registry entry and the tasks of the key are the same before
\* and after the step
Untouched(key) ==
    /\ RowsIn(store', key) = RowsOf(key)
    /\ DictGet(registry', key) = DictGet(registry, key)
    /\ \A slot \in Slots :
          (tasks[slot] # NoTask /\ tasks[slot].key = key) => tasks'[slot] = tasks[slot]
    /\ \A slot \in Slots :
          (tasks'[slot] # NoTask /\ tasks'[slot].key = key) => tasks'[slot] = tasks[slot]

\* C40: every step of a running process, that is a schedule, a cancel, a
\* task's start, retry, Done outcome, failure, cancellation or callback,
\* concerns one key and leaves the row, the registry entry and the tasks of
\* every other key as they are, the other kind of the same guild and user
\* included; only the restore and the process stop concern all keys.
C40_KeysIndependent ==
    [][ last'.op \notin {"restore", "crash"} =>
          /\ \E touched \in Keys : \A key \in Keys \ {touched} : Untouched(key)
          /\ last'.key # NoKey => \A key \in Keys \ {last'.key} : Untouched(key)
      ]_vars

\* C40 witness: the task of the ban has failed (its executor raised) while
\* the mute of the same user is pending: the mute's row is in the table and
\* its registered task has neither finished nor been cancelled
C40_Witness ==
    /\ last.op = "executor"
    /\ last.outcome = "raise"
    /\ last.key[1] = ACTION_BAN
    /\ \E key \in DOMAIN registry :
          /\ key = action_key(ACTION_MUTE, last.key[2], last.key[3])
          /\ HasRow(key)
          /\ LiveTasks(key) = {registry[key]}

====
